---------------------------- MODULE Spec2Model ----------------------------
(***************************************************************************)
(* The Windows Jump List update of atom/browser/browser_win.cc:            *)
(* Browser::SetJumpList, jumplist::AppendCategories,                       *)
(* jumplist::AppendCategory, the item builders AppendTask /                *)
(* AppendSeparator / AppendFile and jumplist::ConvertRemovedJumpListItems. *)
(*                                                                         *)
(* Every native call (COM, shell, the JavaScript provider) is a step whose *)
(* outcome the environment chooses; the C++ around it is translated        *)
(* statement by statement.  `calls' logs every such call of the update in  *)
(* progress.                                                               *)
(***************************************************************************)
EXTENDS Integers, Sequences, FiniteSets, TLC

(***************************************************************************)
(* Bounds of the model.                                                    *)
(***************************************************************************)
\* categories in one provider result
MaxCats == 2
\* items in one provider result, over all of its categories
MaxItems == 2
\* per-category results folded by the AppendCategories harness
MaxResults == 3
\* tasks in one SetUserTasks call
MaxTasks == 2
\* objects in the removed array of the ConvertRemovedJumpListItems harness
MaxRemoved == 2

(***************************************************************************)
(* JumpListResult (atom/browser/browser.h, encoded at browser_win.cc:265). *)
(***************************************************************************)
SUCCESS == "SUCCESS"
ARGUMENT_ERROR == "ARGUMENT_ERROR"
GENERIC_ERROR == "GENERIC_ERROR"
CUSTOM_CATEGORY_SEPARATOR_ERROR == "CUSTOM_CATEGORY_SEPARATOR_ERROR"
MISSING_FILE_TYPE_REGISTRATION_ERROR == "MISSING_FILE_TYPE_REGISTRATION_ERROR"
CUSTOM_CATEGORY_ACCESS_DENIED_ERROR == "CUSTOM_CATEGORY_ACCESS_DENIED_ERROR"

JumpListResult ==
  { SUCCESS, ARGUMENT_ERROR, GENERIC_ERROR, CUSTOM_CATEGORY_SEPARATOR_ERROR,
    MISSING_FILE_TYPE_REGISTRATION_ERROR, CUSTOM_CATEGORY_ACCESS_DENIED_ERROR }

\* "no value": the function has not returned / the local is not yet set
NONE == "-"

(***************************************************************************)
(* HRESULTs: signed 32-bit values, the type the code holds them in.        *)
(***************************************************************************)
S_OK == 0
\* the code the custom-category append is tested against, 0x80040F03: the
\* comparison converts hr to unsigned, so it holds for this signed value
DESTS_E_NO_MATCHING_ASSOC_HANDLER == -2147217661
\* E_ACCESSDENIED, 0x80070005
E_ACCESSDENIED == -2147024891
\* any other failure: E_FAIL, 0x80004005
E_FAIL == -2147467259

\* FAILED(hr) is hr < 0, SUCCEEDED(hr) is hr >= 0
FAILED(hr) == hr < 0
SUCCEEDED(hr) == hr >= 0

\* what a native call that can only succeed or fail returns
HResults == { S_OK, E_FAIL }
\* what ICustomDestinationList::AppendCategory returns
AppendCategoryHResults ==
  { S_OK, DESTS_E_NO_MATCHING_ASSOC_HANDLER, E_ACCESSDENIED, E_FAIL }

(***************************************************************************)
(* JumpListItem and JumpListCategory.                                      *)
(***************************************************************************)
TASK == "task"
SEPARATOR == "separator"
FILE == "file"
ItemTypes == { TASK, SEPARATOR, FILE }

TASKS == "tasks"
FREQUENT == "frequent"
RECENT == "recent"
CUSTOM == "custom"
CategoryTypes == { TASKS, FREQUENT, RECENT, CUSTOM }

\* a default-constructed JumpListItem (the strings empty)
EmptyItem ==
  [ type |-> TASK, path |-> "", arguments |-> "", title |-> "",
    description |-> "", icon_path |-> "", icon_index |-> 0 ]

\* a default-constructed JumpListCategory
EmptyCategory == [ type |-> TASKS, name |-> "", items |-> << >> ]


(***************************************************************************)
(* Native Item Builders.  An IObjectCollection is the sequence of the      *)
(* native objects added to it; `fail' names the first native call of the   *)
(* builder that fails, or NONE.                                            *)
(***************************************************************************)
\* the IShellLink AppendTask sets up for `item'
ShellLinkOf(item) ==
  [ kind |-> "link", path |-> item.path, arguments |-> item.arguments,
    title |-> item.title, description |-> item.description,
    icon_path |-> item.icon_path,
    icon_index |-> IF item.icon_path # "" THEN item.icon_index ELSE 0 ]

\* the IShellLink marked PKEY_AppUserModel_IsDestListSeparator
SeparatorLink ==
  [ kind |-> "separator", path |-> "", arguments |-> "", title |-> "",
    description |-> "", icon_path |-> "", icon_index |-> 0 ]

\* the IShellItem SHCreateItemFromParsingName resolves item.path to
ShellItemOf(item) ==
  [ kind |-> "item", path |-> item.path, arguments |-> "", title |-> "",
    description |-> "", icon_path |-> "", icon_index |-> 0 ]

\* the native calls AppendTask makes for `item', in order
TaskCalls(item) ==
  << "CoCreateInstance", "SetPath", "SetArguments", "SetDescription" >>
    \o (IF item.icon_path # "" THEN << "SetIconLocation" >> ELSE << >>)
    \o << "SetTitle", "AddObject" >>
SeparatorCalls == << "CoCreateInstance", "SetIsDestListSeparator", "AddObject" >>
FileCalls == << "SHCreateItemFromParsingName", "AddObject" >>

Range(seq) == { seq[i] : i \in DOMAIN seq }

\* a task builder that adds the link to the collection before it sets the
\* title
AppendTaskAddsEarly(item, collection, fail) ==
  IF fail \in { "CoCreateInstance", "SetPath", "SetArguments", "SetDescription" }
  THEN [ ok |-> FALSE, collection |-> collection ]
  ELSE IF item.icon_path # "" /\ fail = "SetIconLocation"
  THEN [ ok |-> FALSE, collection |-> collection ]
  ELSE IF fail = "AddObject"
  THEN [ ok |-> FALSE, collection |-> collection ]
  ELSE [ ok |-> fail # "SetTitle",
         collection |-> Append(collection, ShellLinkOf(item)) ]

\* bool AppendTask(const JumpListItem& item, IObjectCollection* collection)
AppendTask(item, collection, fail) ==
  IF fail \in { "CoCreateInstance", "SetPath", "SetArguments", "SetDescription" }
  THEN [ ok |-> FALSE, collection |-> collection ]
  ELSE IF item.icon_path # "" /\ fail = "SetIconLocation"
  THEN [ ok |-> FALSE, collection |-> collection ]
  ELSE IF fail = "SetTitle"
  THEN [ ok |-> FALSE, collection |-> collection ]
  ELSE IF fail = "AddObject"
  THEN [ ok |-> FALSE, collection |-> collection ]
  ELSE [ ok |-> TRUE, collection |-> Append(collection, ShellLinkOf(item)) ]

\* a separator builder that reports success whatever AddObject returned
AppendSeparatorUnchecked(collection, fail) ==
  IF fail \notin { "CoCreateInstance", "SetIsDestListSeparator", "AddObject" }
  THEN [ ok |-> TRUE, collection |-> Append(collection, SeparatorLink) ]
  ELSE [ ok |-> fail = "AddObject", collection |-> collection ]

\* bool AppendSeparator(IObjectCollection* collection)
AppendSeparator(collection, fail) ==
  IF fail # "CoCreateInstance"
  THEN IF fail # "SetIsDestListSeparator"
       THEN IF fail # "AddObject"
            THEN [ ok |-> TRUE, collection |-> Append(collection, SeparatorLink) ]
            ELSE [ ok |-> FALSE, collection |-> collection ]
       ELSE [ ok |-> FALSE, collection |-> collection ]
  ELSE [ ok |-> FALSE, collection |-> collection ]

\* bool AppendFile(const JumpListItem& item, IObjectCollection* collection)
AppendFile(item, collection, fail) ==
  IF fail # "SHCreateItemFromParsingName"
  THEN IF fail # "AddObject"
       THEN [ ok |-> TRUE, collection |-> Append(collection, ShellItemOf(item)) ]
       ELSE [ ok |-> FALSE, collection |-> collection ]
  ELSE [ ok |-> FALSE, collection |-> collection ]

(***************************************************************************)
(* The fold of AppendCategories (browser_win.cc:506-511).                  *)
(***************************************************************************)
\* a fold that keeps the first result that is not Success
FoldKeepsFirstError(result, latestResult) ==
  IF result = SUCCESS THEN latestResult ELSE result

\* result after one more category gave latestResult
FoldResult(result, latestResult) ==
  IF (result = SUCCESS \/ result = GENERIC_ERROR) /\ latestResult # SUCCESS
  THEN latestResult
  ELSE result

(***************************************************************************)
(* The tail of AppendCategory, after the item loop (browser_win.cc:433-470)*)
(***************************************************************************)
\* a tail without the partial-append test
PartialCheckSkipped(result, appended_count, size) == result

\* result after the partial-append test of lines 436-439
AfterPartialCheck(result, appended_count, size) ==
  IF appended_count < size /\ result = SUCCESS THEN GENERIC_ERROR ELSE result

\* a failed AddUserTasks that is not reported
AddUserTasksFailureIgnored(result, hr) == result

\* result after destinations->AddUserTasks(items) returned hr
AfterAddUserTasks(result, hr) ==
  IF FAILED(hr)
  THEN IF result = SUCCESS THEN GENERIC_ERROR ELSE result
  ELSE result

\* a native append whose specific failures give way to an error recorded
\* before
AppendFailureKeepsEarlier(result, hr) ==
  IF FAILED(hr)
  THEN IF result # SUCCESS
       THEN result
       ELSE IF hr = DESTS_E_NO_MATCHING_ASSOC_HANDLER
       THEN MISSING_FILE_TYPE_REGISTRATION_ERROR
       ELSE IF hr = E_ACCESSDENIED
       THEN CUSTOM_CATEGORY_ACCESS_DENIED_ERROR
       ELSE GENERIC_ERROR
  ELSE result

\* a native append whose unspecific failure is not reported
AppendFailureUnmappedIgnored(result, hr) ==
  IF FAILED(hr)
  THEN IF hr = DESTS_E_NO_MATCHING_ASSOC_HANDLER
       THEN MISSING_FILE_TYPE_REGISTRATION_ERROR
       ELSE IF hr = E_ACCESSDENIED
       THEN CUSTOM_CATEGORY_ACCESS_DENIED_ERROR
       ELSE result
  ELSE result

\* a native append whose unspecific failure always gives GenericError
AppendFailureIsGeneric(result, hr) ==
  IF FAILED(hr)
  THEN IF hr = DESTS_E_NO_MATCHING_ASSOC_HANDLER
       THEN MISSING_FILE_TYPE_REGISTRATION_ERROR
       ELSE IF hr = E_ACCESSDENIED
       THEN CUSTOM_CATEGORY_ACCESS_DENIED_ERROR
       ELSE GENERIC_ERROR
  ELSE result

\* result after destinations->AppendCategory(name, items) returned hr
AfterAppendCategory(result, hr) ==
  IF FAILED(hr)
  THEN IF hr = DESTS_E_NO_MATCHING_ASSOC_HANDLER
       THEN MISSING_FILE_TYPE_REGISTRATION_ERROR
       ELSE IF hr = E_ACCESSDENIED
       THEN CUSTOM_CATEGORY_ACCESS_DENIED_ERROR
       ELSE IF result = SUCCESS THEN GENERIC_ERROR ELSE result
  ELSE result

(***************************************************************************)
(* The end of Browser::SetJumpList (browser_win.cc:713-719).               *)
(***************************************************************************)
\* a failed commit that always gives GenericError
CommitFailureIsGeneric(result, hr) ==
  IF FAILED(hr) THEN GENERIC_ERROR ELSE result

\* result after destinations->CommitList() returned hr
AfterCommitList(result, hr) ==
  IF FAILED(hr)
  THEN IF result = SUCCESS THEN GENERIC_ERROR ELSE result
  ELSE result

(***************************************************************************)
(* The JavaScript values the provider returns, and their conversion by     *)
(* mate::Converter<...>::FromV8.  A JavaScript object is a record: `dict'  *)
(* says it converts to a mate::Dictionary, `keys' holds the properties     *)
(* that are present with a value of the type dict.Get asks for.            *)
(***************************************************************************)
\* dict.Get(key, &out) succeeds
Has(dict, key) == key \in dict.keys

\* Converter<JumpListItem::Type>::FromV8
ItemTypeFromV8(item_type) ==
  IF item_type = "task" THEN [ ok |-> TRUE, type |-> TASK ]
  ELSE IF item_type = "separator" THEN [ ok |-> TRUE, type |-> SEPARATOR ]
  ELSE IF item_type = "file" THEN [ ok |-> TRUE, type |-> FILE ]
  ELSE [ ok |-> FALSE, type |-> TASK ]

\* Converter<JumpListItem>::FromV8; `out' starts default-constructed (its
\* icon_index is never read unless "iconIndex" was converted into it)
ItemFromV8(val) ==
  IF ~val.dict THEN [ ok |-> FALSE, out |-> EmptyItem ]
  ELSE IF ~(Has(val, "type") /\ ItemTypeFromV8(val.type).ok)
  THEN [ ok |-> FALSE, out |-> EmptyItem ]
  ELSE
    LET type == ItemTypeFromV8(val.type).type IN
    CASE type = TASK ->
           IF ~Has(val, "program") \/ ~Has(val, "title")
           THEN [ ok |-> FALSE, out |-> EmptyItem ]
           ELSE IF Has(val, "iconPath") /\ ~Has(val, "iconIndex")
           THEN [ ok |-> FALSE, out |-> EmptyItem ]
           ELSE [ ok |-> TRUE,
                  out |-> [ type |-> TASK, path |-> val.program,
                            title |-> val.title,
                            icon_path |-> IF Has(val, "iconPath")
                                          THEN val.iconPath ELSE "",
                            icon_index |-> IF Has(val, "iconPath")
                                           THEN val.iconIndex ELSE 0,
                            arguments |-> IF Has(val, "arguments")
                                          THEN val.arguments ELSE "",
                            description |-> IF Has(val, "description")
                                            THEN val.description ELSE "" ] ]
      [] type = SEPARATOR ->
           [ ok |-> TRUE, out |-> [ EmptyItem EXCEPT !.type = SEPARATOR ] ]
      [] type = FILE ->
           IF Has(val, "path")
           THEN [ ok |-> TRUE,
                  out |-> [ EmptyItem EXCEPT !.type = FILE, !.path = val.path ] ]
           ELSE [ ok |-> FALSE, out |-> EmptyItem ]

\* Converter<std::vector<JumpListItem>>::FromV8: every element must convert
RECURSIVE ItemsFromV8(_)
ItemsFromV8(vals) ==
  IF vals = << >> THEN [ ok |-> TRUE, out |-> << >> ]
  ELSE LET head == ItemFromV8(Head(vals))
           tail == ItemsFromV8(Tail(vals))
       IN IF head.ok /\ tail.ok
          THEN [ ok |-> TRUE, out |-> << head.out >> \o tail.out ]
          ELSE [ ok |-> FALSE, out |-> << >> ]

\* Converter<JumpListCategory::Type>::FromV8
CategoryTypeFromV8(category_type) ==
  IF category_type = "tasks" THEN [ ok |-> TRUE, type |-> TASKS ]
  ELSE IF category_type = "frequent" THEN [ ok |-> TRUE, type |-> FREQUENT ]
  ELSE IF category_type = "recent" THEN [ ok |-> TRUE, type |-> RECENT ]
  ELSE IF category_type = "custom" THEN [ ok |-> TRUE, type |-> CUSTOM ]
  ELSE [ ok |-> FALSE, type |-> TASKS ]

\* Converter<JumpListCategory>::FromV8
CategoryFromV8(val) ==
  IF ~val.dict THEN [ ok |-> FALSE, out |-> EmptyCategory ]
  ELSE
    LET name == IF Has(val, "name") THEN val.name ELSE ""
        type == IF Has(val, "type") /\ CategoryTypeFromV8(val.type).ok
                THEN CategoryTypeFromV8(val.type).type
                ELSE IF name = "" THEN TASKS ELSE CUSTOM
        items == ItemsFromV8(val.items)
    IN IF Has(val, "name") /\ name = ""
       THEN [ ok |-> FALSE, out |-> EmptyCategory ]
       ELSE IF type = TASKS \/ type = CUSTOM
       THEN IF Has(val, "items") /\ items.ok
            THEN [ ok |-> TRUE,
                   out |-> [ type |-> type, name |-> name, items |-> items.out ] ]
            ELSE [ ok |-> FALSE, out |-> EmptyCategory ]
       ELSE [ ok |-> TRUE,
              out |-> [ type |-> type, name |-> name, items |-> << >> ] ]

\* Converter<std::vector<JumpListCategory>>::FromV8 (browser_win.cc:711)
RECURSIVE CategoriesFromV8(_)
CategoriesFromV8(vals) ==
  IF vals = << >> THEN [ ok |-> TRUE, out |-> << >> ]
  ELSE LET head == CategoryFromV8(Head(vals))
           tail == CategoriesFromV8(Tail(vals))
       IN IF head.ok /\ tail.ok
          THEN [ ok |-> TRUE, out |-> << head.out >> \o tail.out ]
          ELSE [ ok |-> FALSE, out |-> << >> ]

\* a conversion that takes a value that is no array for an empty list
ConvertAnythingFromV8(categories_val) ==
  IF categories_val.array
  THEN CategoriesFromV8(categories_val.elems)
  ELSE [ ok |-> TRUE, out |-> << >> ]

\* mate::ConvertFromV8(isolate, categories_val, &categories)
ConvertCategoriesFromV8(categories_val) ==
  IF categories_val.array
  THEN CategoriesFromV8(categories_val.elems)
  ELSE [ ok |-> FALSE, out |-> << >> ]

(***************************************************************************)
(* The values a provider may return.  Item i of a category is told from    *)
(* the others by its path.                                                 *)
(***************************************************************************)
Paths == << "a", "b", "c", "d", "e", "f" >>

\* a JavaScript item object of the given type, the i-th of its category
JsItem(type, i) ==
  [ dict |-> TRUE,
    keys |-> CASE type = TASK -> { "type", "program", "title" }
               [] type = SEPARATOR -> { "type" }
               [] type = FILE -> { "type", "path" },
    type |-> type,
    program |-> IF type = TASK THEN Paths[i] ELSE "",
    title |-> IF type = TASK THEN Paths[i] ELSE "",
    iconPath |-> "", iconIndex |-> 0, arguments |-> "", description |-> "",
    path |-> IF type = FILE THEN Paths[i] ELSE "" ]

\* the JavaScript arrays of k items
JsItemSeqs(k) ==
  { [ i \in 1..k |-> JsItem(f[i], i) ] : f \in [ 1..k -> ItemTypes ] }

\* a JavaScript category object
JsCategory(type, items) ==
  [ dict |-> TRUE,
    keys |-> CASE type = TASKS -> { "type", "items" }
               [] type = CUSTOM -> { "type", "name", "items" }
               [] OTHER -> { "type" },
    name |-> IF type = CUSTOM THEN "Custom" ELSE "",
    type |-> type,
    items |-> items ]

\* the category objects holding at most `budget' items
JsCategories(budget) ==
  { JsCategory(FREQUENT, << >>), JsCategory(RECENT, << >>) }
    \cup UNION { { JsCategory(type, items) : type \in { TASKS, CUSTOM },
                                            items \in JsItemSeqs(k) }
                 : k \in 0..budget }

\* the arrays of at most n category objects holding at most `budget' items
RECURSIVE JsCategoryLists(_, _)
JsCategoryLists(n, budget) ==
  IF n = 0 THEN { << >> }
  ELSE { << >> } \cup
       UNION { { << c >> \o rest
                 : rest \in JsCategoryLists(n - 1, budget - Len(c.items)) }
               : c \in JsCategories(budget) }

\* values that do not convert to std::vector<JumpListCategory>
MalformedValues ==
  { \* not an array at all
    [ array |-> FALSE, elems |-> << >> ],
    \* an element that is no object
    [ array |-> TRUE,
      elems |-> << [ JsCategory(RECENT, << >>) EXCEPT !.dict = FALSE ] >> ],
    \* a Tasks category without "items", after a well-formed category
    [ array |-> TRUE,
      elems |-> << JsCategory(TASKS, << JsItem(TASK, 1) >>),
                   [ JsCategory(TASKS, << >>) EXCEPT !.keys = { "type" } ] >> ],
    \* a category with an empty name
    [ array |-> TRUE,
      elems |-> << [ JsCategory(CUSTOM, << >>) EXCEPT !.name = "" ] >> ],
    \* a task item without a title
    [ array |-> TRUE,
      elems |-> << JsCategory(TASKS,
                     << [ JsItem(TASK, 1) EXCEPT !.keys = { "type", "program" } ] >>) >> ] }

\* what get_categories.Run may return
ProviderValues ==
  { [ array |-> TRUE, elems |-> l ] : l \in JsCategoryLists(MaxCats, MaxItems) }
    \cup MalformedValues

(***************************************************************************)
(* Removed-item conversion (browser_win.cc:516-588).  An object of the     *)
(* removed array is a record: `kind' is the interface it answers to        *)
(* ("item": IShellItem, "link": IShellLink, "other": neither), `fails'     *)
(* the reads of it that fail ("ArgumentsType", "TitleType": the property   *)
(* is read but is no VT_LPWSTR).                                           *)
(***************************************************************************)
\* bool GetShellItemFileName(IShellItem*, base::FilePath* file_name):
\* the new *file_name
GetShellItemFileName(shell_item, file_name) ==
  IF "GetDisplayName" \notin shell_item.fails
  THEN [ ok |-> TRUE, file_name |-> shell_item.path ]
  ELSE [ ok |-> FALSE, file_name |-> file_name ]

\* a conversion that gives up when the arguments or the title cannot be read
ConvertShellLinkNeedsProperties(shell_link, item) ==
  LET typed == [ item EXCEPT !.type = TASK ] IN
  IF shell_link.fails \cap { "GetPath", "Arguments", "ArgumentsType",
                             "Title", "TitleType" } # { }
  THEN [ ok |-> FALSE, item |-> typed ]
  ELSE [ ok |-> TRUE,
         item |->
           [ typed EXCEPT
               !.arguments = shell_link.arguments,
               !.title = shell_link.title,
               !.icon_path = IF "GetIconLocation" \notin shell_link.fails
                             THEN shell_link.icon_path ELSE "",
               !.icon_index = IF "GetIconLocation" \notin shell_link.fails
                              THEN shell_link.icon_index ELSE 0,
               !.description = IF "GetDescription" \notin shell_link.fails
                               THEN shell_link.description ELSE "" ] ]

\* bool ConvertShellLinkToJumpListItem(IShellLink*, JumpListItem* item):
\* the returned flag and *item afterwards.  GetPath fills the local buffer
\* `path'; item->path is not assigned.
ConvertShellLinkToJumpListItem(shell_link, item) ==
  LET typed == [ item EXCEPT !.type = TASK ] IN
  IF "GetPath" \in shell_link.fails
  THEN [ ok |-> FALSE, item |-> typed ]
  ELSE [ ok |-> TRUE,
         item |->
           [ typed EXCEPT
               !.arguments = IF "Arguments" \notin shell_link.fails
                                /\ "ArgumentsType" \notin shell_link.fails
                             THEN shell_link.arguments ELSE "",
               !.title = IF "Title" \notin shell_link.fails
                           /\ "TitleType" \notin shell_link.fails
                         THEN shell_link.title ELSE "",
               !.icon_path = IF "GetIconLocation" \notin shell_link.fails
                             THEN shell_link.icon_path ELSE "",
               !.icon_index = IF "GetIconLocation" \notin shell_link.fails
                              THEN shell_link.icon_index ELSE 0,
               !.description = IF "GetDescription" \notin shell_link.fails
                               THEN shell_link.description ELSE "" ] ]

\* in->GetAt(i, IID_PPV_ARGS(&p)) succeeds for the interface `kind'
\* (i counts from 1 here)
GetAtSucceeds(in, i, kind) == i \in DOMAIN in.objs /\ in.objs[i].kind = kind

\* a loop that emits an item for every shortcut, readable or not
RECURSIVE ConvertRemovedLoopKeepsUnreadable(_, _, _, _, _)
ConvertRemovedLoopKeepsUnreadable(in, i, removed_count, item, out) ==
  IF i > removed_count THEN out
  ELSE IF GetAtSucceeds(in, i, "item")
  THEN LET name == GetShellItemFileName(in.objs[i], item.path)
           next == [ item EXCEPT !.type = FILE, !.path = name.file_name ]
       IN ConvertRemovedLoopKeepsUnreadable(in, i + 1, removed_count, next,
                                            Append(out, next))
  ELSE IF GetAtSucceeds(in, i, "link")
  THEN LET conv == ConvertShellLinkToJumpListItem(in.objs[i], item)
       IN ConvertRemovedLoopKeepsUnreadable(in, i + 1, removed_count, conv.item,
                                            Append(out, conv.item))
  ELSE ConvertRemovedLoopKeepsUnreadable(in, i + 1, removed_count, item, out)

\* the loop of ConvertRemovedJumpListItems from element i on; `item' is the
\* one JumpListItem declared before the loop
RECURSIVE ConvertRemovedLoop(_, _, _, _, _)
ConvertRemovedLoop(in, i, removed_count, item, out) ==
  IF i > removed_count THEN out
  ELSE IF GetAtSucceeds(in, i, "item")
  THEN LET name == GetShellItemFileName(in.objs[i], item.path)
           next == [ item EXCEPT !.type = FILE, !.path = name.file_name ]
       IN ConvertRemovedLoop(in, i + 1, removed_count, next, Append(out, next))
  ELSE IF GetAtSucceeds(in, i, "link")
  THEN LET conv == ConvertShellLinkToJumpListItem(in.objs[i], item)
       IN ConvertRemovedLoop(in, i + 1, removed_count, conv.item,
                             IF conv.ok THEN Append(out, conv.item) ELSE out)
  ELSE ConvertRemovedLoop(in, i + 1, removed_count, item, out)

\* void ConvertRemovedJumpListItems(IObjectArray* in, vector<JumpListItem>* out).
\* SUCCEEDED(in->GetCount(&removed_count) && (removed_count > 0)) tests a
\* bool, 0 or 1, and so always holds; when GetCount fails removed_count is
\* left uninitialized and `garbage' is the value it happens to hold.
ConvertRemovedJumpListItems(in, garbage) ==
  LET removed_count == IF in.count_ok THEN Len(in.objs) ELSE garbage
  IN ConvertRemovedLoop(in, 1, removed_count, EmptyItem, << >>)

\* removed objects of the three kinds
RemovedShellItem ==
  [ kind |-> "item", path |-> "old.txt", arguments |-> "", title |-> "",
    description |-> "", icon_path |-> "", icon_index |-> 0, fails |-> { } ]
RemovedShellLink ==
  [ kind |-> "link", path |-> "old.exe", arguments |-> "--old",
    title |-> "Old", description |-> "old task", icon_path |-> "old.ico",
    icon_index |-> 1, fails |-> { } ]

\* what BeginList hands out: the minimum slot count and the removed array
BeginListResults ==
  { [ min_slots |-> 10,
      removed |-> [ count_ok |-> TRUE,
                    objs |-> << RemovedShellItem, RemovedShellLink >> ] ] }

(***************************************************************************)
(* State.                                                                  *)
(***************************************************************************)
VARIABLES
  pc,                 \* the call SetJumpList makes next; "idle", "done"
  val,                \* the argument: "null", "function" or "other"
  delete_jump_list,   \* SetJumpList's locals ...
  get_categories,     \* TRUE once val converted to a callback
  min_slots,
  removed,
  removed_items,
  categories_val,
  categories,
  result,
  retval,             \* what SetJumpList returned, NONE before it returns
  categories_result,  \* AppendCategories' locals: result,
  latestResult,
  ci,                 \* and the position of `category' in categories
  category_result,    \* AppendCategory's locals: result,
  appended_count,
  collection,
  ii,                 \* and the position of `item' in category.items
  destinations,       \* the ICustomDestinationList: "none", "idle",
                      \* "began", "committed", "aborted", "deleted"
  pending,            \* the sections appended in the open transaction
  persisted,          \* the list the OS keeps for this application
  provider_args,      \* what get_categories was run with
  calls,              \* the native calls of this update, in order
  fold_input,         \* the per-category results of the fold harness
  tasks,              \* the argument of SetUserTasks while it is the update
  earlier             \* history: how the update before this one ended

vars ==
  << pc, val, delete_jump_list, get_categories, min_slots, removed,
     removed_items, categories_val, categories, result, retval,
     categories_result, latestResult, ci, category_result, appended_count,
     collection, ii, destinations, pending, persisted, provider_args, calls,
     fold_input, tasks, earlier >>

arg_vars == << val, delete_jump_list, get_categories >>
begin_vars == << min_slots, removed, removed_items, provider_args >>
provider_vars == << categories_val, categories >>
categories_vars == << categories_result, latestResult, ci >>
category_vars == << category_result, appended_count, collection, ii >>
list_vars == << destinations, pending, persisted >>

\* one entry of `calls': the call, the HRESULT it returned (S_OK / E_FAIL
\* for a builder's true / false) and the category and item it was made for
Call(op, hr, cat, item) == [ op |-> op, hr |-> hr, cat |-> cat, item |-> item ]

\* the persisted list as it was when the update began
Prior == [ tag |-> "prior", sections |-> << >> ]

NoRemoved == [ count_ok |-> TRUE, objs |-> << >> ]
NoValue == [ array |-> FALSE, elems |-> << >> ]
NoArgs == [ run |-> FALSE, min_slots |-> 0, removed_items |-> << >> ]
NoTasks == [ given |-> FALSE, list |-> << >> ]

\* how an update stands: the list object it used, whether CommitList or
\* AbortList was called on it, and what its provider got
Snapshot ==
  [ destinations |-> destinations,
    terminated |-> \E i \in DOMAIN calls :
                     calls[i].op \in { "CommitList", "AbortList" },
    provider_args |-> provider_args ]
NoEarlier ==
  [ destinations |-> "none", terminated |-> FALSE, provider_args |-> NoArgs ]

Init ==
  /\ pc = "idle"
  /\ val = NONE
  /\ delete_jump_list = FALSE
  /\ get_categories = FALSE
  /\ retval = NONE
  /\ min_slots = 0
  /\ removed = NoRemoved
  /\ removed_items = << >>
  /\ categories_val = NoValue
  /\ categories = << >>
  /\ result = NONE
  /\ categories_result = NONE
  /\ latestResult = NONE
  /\ ci = 0
  /\ category_result = NONE
  /\ appended_count = 0
  /\ collection = << >>
  /\ ii = 0
  /\ provider_args = NoArgs
  /\ destinations = "none"
  /\ pending = << >>
  /\ persisted = Prior
  /\ calls = << >>
  /\ fold_input = << >>
  /\ tasks = NoTasks
  /\ earlier = NoEarlier

(***************************************************************************)
(* Browser::SetJumpList (browser_win.cc:675-726), one action per native    *)
(* call.                                                                   *)
(***************************************************************************)
\* SetJumpList returns r
Return(r) ==
  /\ retval' = r
  /\ pc' = "done"

\* the locals of a SetJumpList call that has not run yet
FreshLocals ==
  /\ min_slots' = 0
  /\ removed' = NoRemoved
  /\ removed_items' = << >>
  /\ categories_val' = NoValue
  /\ categories' = << >>
  /\ result' = NONE
  /\ categories_result' = NONE
  /\ latestResult' = NONE
  /\ ci' = 0
  /\ category_result' = NONE
  /\ appended_count' = 0
  /\ collection' = << >>
  /\ ii' = 0
  /\ provider_args' = NoArgs

\* an entry that goes on after an argument that is neither null nor a function
SetJumpListUnchecked(v) ==
  /\ pc \in { "idle", "done" }
  /\ val' = v
  /\ delete_jump_list' = (v = "null")
  /\ get_categories' = (v = "function")
  /\ FreshLocals
  /\ destinations' = "none"
  /\ pending' = << >>
  /\ persisted' = Prior
  /\ calls' = << >>
  /\ retval' = NONE
  /\ pc' = "CoCreateInstance"
  /\ tasks' = NoTasks
  /\ UNCHANGED fold_input

\* lines 675-684: entry, with the argument v; the list object and the
\* locals of the previous call are gone
SetJumpList(v) ==
  /\ pc \in { "idle", "done" }
  /\ val' = v
  /\ delete_jump_list' = (v = "null")
  /\ get_categories' = (v = "function")
  /\ FreshLocals
  /\ destinations' = "none"
  /\ pending' = << >>
  /\ persisted' = Prior
  /\ calls' = << >>
  /\ IF v # "null" /\ v # "function"
     THEN Return(ARGUMENT_ERROR)
     ELSE retval' = NONE /\ pc' = "CoCreateInstance"
  /\ tasks' = NoTasks
  /\ UNCHANGED fold_input

\* lines 686-688: destinations.CoCreateInstance(CLSID_DestinationList)
CoCreateInstance(hr) ==
  /\ pc = "CoCreateInstance"
  /\ calls' = Append(calls, Call("CoCreateInstance", hr, 0, 0))
  /\ IF FAILED(hr)
     THEN /\ Return(GENERIC_ERROR)
          /\ UNCHANGED destinations
     ELSE /\ destinations' = "idle"
          /\ pc' = IF delete_jump_list THEN "DeleteList" ELSE "SetAppID"
          /\ UNCHANGED retval
  /\ UNCHANGED << arg_vars, begin_vars, provider_vars, categories_vars,
                  category_vars, result, pending, persisted, fold_input,
                  tasks, earlier >>

\* a DeleteList after which the update goes on to SetAppID
DeleteListFallsThrough(hr) ==
  /\ pc = "DeleteList"
  /\ calls' = Append(calls, Call("DeleteList", hr, 0, 0))
  /\ IF SUCCEEDED(hr)
     THEN /\ persisted' = [ tag |-> "deleted", sections |-> << >> ]
          /\ destinations' = "deleted"
     ELSE UNCHANGED << persisted, destinations >>
  /\ pc' = "SetAppID"
  /\ UNCHANGED << arg_vars, begin_vars, provider_vars, categories_vars,
                  category_vars, result, retval, pending, fold_input,
                  tasks, earlier >>

\* lines 690-693: destinations->DeleteList(GetAppUserModelID())
DeleteList(hr) ==
  /\ pc = "DeleteList"
  /\ calls' = Append(calls, Call("DeleteList", hr, 0, 0))
  /\ IF SUCCEEDED(hr)
     THEN /\ persisted' = [ tag |-> "deleted", sections |-> << >> ]
          /\ destinations' = "deleted"
     ELSE UNCHANGED << persisted, destinations >>
  /\ Return(SUCCESS)
  /\ UNCHANGED << arg_vars, begin_vars, provider_vars, categories_vars,
                  category_vars, result, pending, fold_input,
                  tasks, earlier >>

\* a SetAppID whose HRESULT is not looked at
SetAppIDUnchecked(hr) ==
  /\ pc = "SetAppID"
  /\ calls' = Append(calls, Call("SetAppID", hr, 0, 0))
  /\ pc' = "BeginList"
  /\ UNCHANGED << arg_vars, begin_vars, provider_vars, categories_vars,
                  category_vars, result, retval, list_vars, fold_input,
                  tasks, earlier >>

\* lines 695-696: destinations->SetAppID(GetAppUserModelID())
SetAppID(hr) ==
  /\ pc = "SetAppID"
  /\ calls' = Append(calls, Call("SetAppID", hr, 0, 0))
  /\ IF FAILED(hr)
     THEN Return(GENERIC_ERROR)
     ELSE pc' = "BeginList" /\ UNCHANGED retval
  /\ UNCHANGED << arg_vars, begin_vars, provider_vars, categories_vars,
                  category_vars, result, list_vars, fold_input,
                  tasks, earlier >>

\* lines 698-702: destinations->BeginList(&min_slots, IID_PPV_ARGS(&removed))
BeginList(hr, out) ==
  /\ pc = "BeginList"
  /\ calls' = Append(calls, Call("BeginList", hr, 0, 0))
  /\ IF FAILED(hr)
     THEN /\ Return(GENERIC_ERROR)
          /\ UNCHANGED << min_slots, removed, destinations, pending >>
     ELSE /\ min_slots' = out.min_slots
          /\ removed' = out.removed
          /\ destinations' = "began"
          /\ pending' = << >>
          /\ pc' = "ConvertRemovedJumpListItems"
          /\ UNCHANGED retval
  /\ UNCHANGED << arg_vars, removed_items, provider_args, provider_vars,
                  categories_vars, category_vars, result, persisted,
                  fold_input,
                  tasks, earlier >>

\* lines 704-707: jumplist::ConvertRemovedJumpListItems(removed, &removed_items)
\* and auto result = JumpListResult::SUCCESS
ConvertRemoved(garbage) ==
  /\ pc = "ConvertRemovedJumpListItems"
  /\ removed_items' = ConvertRemovedJumpListItems(removed, garbage)
  /\ result' = SUCCESS
  /\ pc' = "Run"
  /\ UNCHANGED << arg_vars, min_slots, removed, provider_args, provider_vars,
                  categories_vars, category_vars, retval, list_vars, calls,
                  fold_input,
                  tasks, earlier >>

\* a provider run with no regard to what BeginList handed out
RunWithoutSnapshot(value) ==
  /\ pc = "Run"
  /\ get_categories
  /\ provider_args' = [ run |-> TRUE, min_slots |-> 0, removed_items |-> << >> ]
  /\ calls' = Append(calls, Call("Run", S_OK, 0, 0))
  /\ categories_val' = value
  /\ pc' = "ConvertFromV8"
  /\ UNCHANGED << arg_vars, min_slots, removed, removed_items, categories,
                  categories_vars, category_vars, result, retval, list_vars,
                  fold_input, tasks, earlier >>

\* line 709: categories_val = get_categories.Run(min_slots, removed_items)
Run(value) ==
  /\ pc = "Run"
  /\ get_categories
  /\ provider_args' = [ run |-> TRUE, min_slots |-> min_slots,
                        removed_items |-> removed_items ]
  /\ calls' = Append(calls, Call("Run", S_OK, 0, 0))
  /\ categories_val' = value
  /\ pc' = "ConvertFromV8"
  /\ UNCHANGED << arg_vars, min_slots, removed, removed_items, categories,
                  categories_vars, category_vars, result, retval, list_vars,
                  fold_input,
                  tasks, earlier >>

\* a conversion whose failure returns ArgumentError at once
ConvertFromV8ReturnsOnFailure ==
  /\ pc = "ConvertFromV8"
  /\ LET conv == ConvertCategoriesFromV8(categories_val) IN
     IF conv.ok
     THEN /\ categories' = conv.out
          /\ categories_result' = SUCCESS
          /\ ci' = 1
          /\ pc' = "AppendCategories"
          /\ UNCHANGED << result, retval >>
     ELSE /\ result' = ARGUMENT_ERROR
          /\ Return(ARGUMENT_ERROR)
          /\ UNCHANGED << categories, categories_result, ci >>
  /\ UNCHANGED << arg_vars, begin_vars, categories_val, latestResult,
                  category_vars, list_vars, calls, fold_input,
                  tasks, earlier >>

\* lines 710-712, 720: mate::ConvertFromV8(isolate, categories_val, &categories)
\* and, when it succeeds, the entry of AppendCategories (line 483)
ConvertFromV8 ==
  /\ pc = "ConvertFromV8"
  /\ LET conv == ConvertCategoriesFromV8(categories_val) IN
     IF conv.ok
     THEN /\ categories' = conv.out
          /\ categories_result' = SUCCESS
          /\ ci' = 1
          /\ pc' = "AppendCategories"
     ELSE /\ pc' = "AbortList"
          /\ UNCHANGED << categories, categories_result, ci >>
  /\ UNCHANGED << arg_vars, begin_vars, categories_val, latestResult,
                  category_vars, result, retval, list_vars, calls,
                  fold_input,
                  tasks, earlier >>

\* an AbortList after which the update returns GenericError
AbortListReturnsGeneric(hr) ==
  /\ pc = "AbortList"
  /\ calls' = Append(calls, Call("AbortList", hr, 0, 0))
  /\ IF SUCCEEDED(hr)
     THEN destinations' = "aborted" /\ pending' = << >>
     ELSE UNCHANGED << destinations, pending >>
  /\ result' = GENERIC_ERROR
  /\ Return(GENERIC_ERROR)
  /\ UNCHANGED << arg_vars, begin_vars, provider_vars, categories_vars,
                  category_vars, persisted, fold_input,
                  tasks, earlier >>

\* lines 721-725: destinations->AbortList() and the ArgumentError return
AbortList(hr) ==
  /\ pc = "AbortList"
  /\ calls' = Append(calls, Call("AbortList", hr, 0, 0))
  /\ IF SUCCEEDED(hr)
     THEN destinations' = "aborted" /\ pending' = << >>
     ELSE UNCHANGED << destinations, pending >>
  /\ result' = ARGUMENT_ERROR
  /\ Return(ARGUMENT_ERROR)
  /\ UNCHANGED << arg_vars, begin_vars, provider_vars, categories_vars,
                  category_vars, persisted, fold_input,
                  tasks, earlier >>

\* a CommitList that persists the pending list whatever it returns
CommitListPersistsAnyway(hr) ==
  /\ pc = "CommitList"
  /\ calls' = Append(calls, Call("CommitList", hr, 0, 0))
  /\ destinations' = "committed"
  /\ persisted' = [ tag |-> "committed", sections |-> pending ]
  /\ result' = AfterCommitList(result, hr)
  /\ Return(result')
  /\ UNCHANGED << arg_vars, begin_vars, provider_vars, categories_vars,
                  category_vars, pending, fold_input,
                  tasks, earlier >>

\* a CommitList that is tried again for as long as it fails
CommitListRetried(hr) ==
  /\ pc = "CommitList"
  /\ calls' = Append(calls, Call("CommitList", hr, 0, 0))
  /\ IF FAILED(hr)
     THEN UNCHANGED << destinations, persisted, result, retval, pc >>
     ELSE /\ destinations' = "committed"
          /\ persisted' = [ tag |-> "committed", sections |-> pending ]
          /\ UNCHANGED result
          /\ Return(result)
  /\ UNCHANGED << arg_vars, begin_vars, provider_vars, categories_vars,
                  category_vars, pending, fold_input,
                  tasks, earlier >>

\* lines 713-719, 725: destinations->CommitList() and the return
CommitList(hr) ==
  /\ pc = "CommitList"
  /\ calls' = Append(calls, Call("CommitList", hr, 0, 0))
  /\ IF FAILED(hr)
     THEN UNCHANGED << destinations, persisted >>
     ELSE /\ destinations' = "committed"
          /\ persisted' = [ tag |-> "committed", sections |-> pending ]
  /\ result' = AfterCommitList(result, hr)
  /\ Return(result')
  /\ UNCHANGED << arg_vars, begin_vars, provider_vars, categories_vars,
                  category_vars, pending, fold_input,
                  tasks, earlier >>

(***************************************************************************)
(* jumplist::AppendCategories (browser_win.cc:478-514) and                 *)
(* jumplist::AppendCategory (browser_win.cc:385-471).                      *)
(***************************************************************************)
\* the category the loop of AppendCategories is at
category == categories[ci]

\* lines 506-512: the category gave `latest'; fold it and go to the next one
CategoryDone(latest) ==
  /\ latestResult' = latest
  /\ categories_result' = FoldResult(categories_result, latest)
  /\ ci' = ci + 1
  /\ pc' = "AppendCategories"

\* a known-category activation whose failure ends the loop of AppendCategories
AppendKnownCategoryStopsAtFailure(hr) ==
  /\ pc = "AppendCategories"
  /\ ci <= Len(categories)
  /\ category.type \in { RECENT, FREQUENT }
  /\ calls' = Append(calls, Call("AppendKnownCategory", hr, ci, 0))
  /\ IF FAILED(hr)
     THEN /\ latestResult' = GENERIC_ERROR
          /\ categories_result' = FoldResult(categories_result, GENERIC_ERROR)
          /\ ci' = Len(categories) + 1
          /\ pc' = "AppendCategories"
          /\ UNCHANGED pending
     ELSE /\ CategoryDone(SUCCESS)
          /\ pending' = Append(pending, [ kind |-> category.type,
                                          name |-> "", items |-> << >> ])
  /\ UNCHANGED << arg_vars, begin_vars, provider_vars, category_vars, result,
                  retval, destinations, persisted, fold_input,
                  tasks, earlier >>

\* lines 492-504: destinations->AppendKnownCategory(KDC_RECENT / KDC_FREQUENT)
AppendKnownCategory(hr) ==
  /\ pc = "AppendCategories"
  /\ ci <= Len(categories)
  /\ category.type \in { RECENT, FREQUENT }
  /\ calls' = Append(calls, Call("AppendKnownCategory", hr, ci, 0))
  /\ IF FAILED(hr)
     THEN /\ CategoryDone(GENERIC_ERROR)
          /\ UNCHANGED pending
     ELSE /\ CategoryDone(SUCCESS)
          /\ pending' = Append(pending, [ kind |-> category.type,
                                          name |-> "", items |-> << >> ])
  /\ UNCHANGED << arg_vars, begin_vars, provider_vars, category_vars, result,
                  retval, destinations, persisted, fold_input,
                  tasks, earlier >>

\* an AppendCategory without the test for an empty category
AppendCategoryOfAnySize(hr) ==
  /\ pc = "AppendCategories"
  /\ ci <= Len(categories)
  /\ category.type \in { TASKS, CUSTOM }
  /\ collection' = << >>
  /\ appended_count' = 0
  /\ calls' = Append(calls, Call("CoCreateInstance(collection)", hr, ci, 0))
  /\ IF FAILED(hr)
     THEN /\ CategoryDone(GENERIC_ERROR)
          /\ category_result' = NONE
          /\ ii' = 0
     ELSE /\ category_result' = SUCCESS
          /\ ii' = 1
          /\ pc' = "AppendCategory"
          /\ UNCHANGED categories_vars
  /\ UNCHANGED << arg_vars, begin_vars, provider_vars, result, retval,
                  list_vars, fold_input,
                  tasks, earlier >>

\* lines 487-490 and 385-399: AppendCategory is entered for a Tasks or
\* Custom category; it returns at once for an empty one and when the
\* collection cannot be created
AppendCategory(hr) ==
  /\ pc = "AppendCategories"
  /\ ci <= Len(categories)
  /\ category.type \in { TASKS, CUSTOM }
  /\ collection' = << >>
  /\ appended_count' = 0
  /\ IF category.items = << >>
     THEN /\ CategoryDone(SUCCESS)
          /\ category_result' = NONE
          /\ ii' = 0
          /\ UNCHANGED calls
     ELSE /\ calls' = Append(calls, Call("CoCreateInstance(collection)", hr, ci, 0))
          /\ IF FAILED(hr)
             THEN /\ CategoryDone(GENERIC_ERROR)
                  /\ category_result' = NONE
                  /\ ii' = 0
             ELSE /\ category_result' = SUCCESS
                  /\ ii' = 1
                  /\ pc' = "AppendCategory"
                  /\ UNCHANGED categories_vars
  /\ UNCHANGED << arg_vars, begin_vars, provider_vars, result, retval,
                  list_vars, fold_input,
                  tasks, earlier >>

\* the item the loop of AppendCategory is at
item == category.items[ii]

\* the builder the switch of lines 401-430 calls for `item'
BuilderOf(it) ==
  CASE it.type = TASK -> "AppendTask"
    [] it.type = SEPARATOR -> "AppendSeparator"
    [] it.type = FILE -> "AppendFile"

\* the native calls of that builder
BuilderCalls(it) ==
  CASE it.type = TASK -> TaskCalls(it)
    [] it.type = SEPARATOR -> SeparatorCalls
    [] it.type = FILE -> FileCalls

\* the builder applied
Build(it, coll, fail) ==
  CASE it.type = TASK -> AppendTask(it, coll, fail)
    [] it.type = SEPARATOR -> AppendSeparator(coll, fail)
    [] it.type = FILE -> AppendFile(it, coll, fail)

\* a loop that a failed builder or a misplaced separator ends
AppendItemStopsAtFailure(fail) ==
  /\ pc = "AppendCategory"
  /\ ii <= Len(category.items)
  /\ fail \in Range(BuilderCalls(item)) \cup { NONE }
  /\ IF item.type = SEPARATOR /\ category.type # TASKS
     THEN /\ fail = NONE
          /\ category_result' = CUSTOM_CATEGORY_SEPARATOR_ERROR
          /\ ii' = Len(category.items) + 1
          /\ UNCHANGED << appended_count, collection, calls >>
     ELSE LET built == Build(item, collection, fail) IN
          /\ collection' = built.collection
          /\ appended_count' = IF built.ok THEN appended_count + 1
                               ELSE appended_count
          /\ calls' = Append(calls, Call(BuilderOf(item),
                                         IF built.ok THEN S_OK ELSE E_FAIL,
                                         ci, ii))
          /\ ii' = IF built.ok THEN ii + 1 ELSE Len(category.items) + 1
          /\ UNCHANGED category_result
  /\ UNCHANGED << pc, arg_vars, begin_vars, provider_vars, categories_vars,
                  result, retval, list_vars, fold_input,
                  tasks, earlier >>

\* lines 400-431: one turn of the item loop
AppendItem(fail) ==
  /\ pc = "AppendCategory"
  /\ ii <= Len(category.items)
  /\ fail \in Range(BuilderCalls(item)) \cup { NONE }
  /\ IF item.type = SEPARATOR /\ category.type # TASKS
     THEN /\ fail = NONE
          /\ category_result' = CUSTOM_CATEGORY_SEPARATOR_ERROR
          /\ UNCHANGED << appended_count, collection, calls >>
     ELSE LET built == Build(item, collection, fail) IN
          /\ collection' = built.collection
          /\ appended_count' = IF built.ok THEN appended_count + 1
                               ELSE appended_count
          /\ calls' = Append(calls, Call(BuilderOf(item),
                                         IF built.ok THEN S_OK ELSE E_FAIL,
                                         ci, ii))
          /\ UNCHANGED category_result
  /\ ii' = ii + 1
  /\ UNCHANGED << pc, arg_vars, begin_vars, provider_vars, categories_vars,
                  result, retval, list_vars, fold_input,
                  tasks, earlier >>

\* a tail that hands the collection to the destination list even when it
\* is empty
AppendToListOfAnyCount(hr) ==
  /\ pc = "AppendCategory"
  /\ ii > Len(category.items)
  /\ LET partial == AfterPartialCheck(category_result, appended_count,
                                      Len(category.items))
         section == [ kind |-> category.type, name |-> category.name,
                      items |-> collection ]
     IN /\ IF category.type = TASKS
           THEN /\ hr \in HResults
                /\ calls' = Append(calls, Call("AddUserTasks", hr, ci, 0))
                /\ category_result' = AfterAddUserTasks(partial, hr)
           ELSE /\ calls' = Append(calls, Call("AppendCategory", hr, ci, 0))
                /\ category_result' = AfterAppendCategory(partial, hr)
        /\ pending' = IF SUCCEEDED(hr) THEN Append(pending, section)
                      ELSE pending
        /\ CategoryDone(category_result')
  /\ UNCHANGED << arg_vars, begin_vars, provider_vars, appended_count,
                  collection, ii, result, retval, destinations, persisted,
                  fold_input,
                  tasks, earlier >>

\* lines 433-470: after the loop, the collection goes to the destination list
AppendToList(hr) ==
  /\ pc = "AppendCategory"
  /\ ii > Len(category.items)
  /\ IF appended_count = 0
     THEN /\ hr = S_OK
          /\ CategoryDone(category_result)
          /\ UNCHANGED << category_result, calls, pending >>
     ELSE LET partial == AfterPartialCheck(category_result, appended_count,
                                           Len(category.items))
              section == [ kind |-> category.type, name |-> category.name,
                           items |-> collection ]
          IN /\ IF category.type = TASKS
                THEN /\ hr \in HResults
                     /\ calls' = Append(calls, Call("AddUserTasks", hr, ci, 0))
                     /\ category_result' = AfterAddUserTasks(partial, hr)
                ELSE /\ calls' = Append(calls, Call("AppendCategory", hr, ci, 0))
                     /\ category_result' = AfterAppendCategory(partial, hr)
             /\ pending' = IF SUCCEEDED(hr) THEN Append(pending, section)
                           ELSE pending
             /\ CategoryDone(category_result')
  /\ UNCHANGED << arg_vars, begin_vars, provider_vars, appended_count,
                  collection, ii, result, retval, destinations, persisted,
                  fold_input,
                  tasks, earlier >>

\* a return of AppendCategories after which a failed result aborts the list
AppendCategoriesReturnAborts ==
  /\ pc = "AppendCategories"
  /\ ci > Len(categories)
  /\ result' = categories_result
  /\ pc' = IF categories_result = SUCCESS THEN "CommitList" ELSE "AbortList"
  /\ UNCHANGED << arg_vars, begin_vars, provider_vars, categories_vars,
                  category_vars, retval, list_vars, calls, fold_input,
                  tasks, earlier >>

\* lines 513 and 712: AppendCategories returns into SetJumpList's result
AppendCategoriesReturn ==
  /\ pc = "AppendCategories"
  /\ ci > Len(categories)
  /\ result' = categories_result
  /\ pc' = "CommitList"
  /\ UNCHANGED << arg_vars, begin_vars, provider_vars, categories_vars,
                  category_vars, retval, list_vars, calls, fold_input,
                  tasks, earlier >>

(***************************************************************************)
(* The update, end to end.                                                 *)
(***************************************************************************)
Values == { "null", "function", "other" }

Next ==
  \/ \E v \in Values : SetJumpList(v) /\ UNCHANGED earlier
  \/ \E hr \in HResults : CoCreateInstance(hr)
  \/ \E hr \in HResults : DeleteList(hr)
  \/ \E hr \in HResults : SetAppID(hr)
  \/ pc = "BeginList" /\ \E hr \in HResults, out \in BeginListResults : BeginList(hr, out)
  \/ \E garbage \in 0..1 : ConvertRemoved(garbage)
  \/ pc = "Run" /\ \E value \in ProviderValues : Run(value)
  \/ ConvertFromV8
  \/ \E hr \in HResults : AbortList(hr)
  \/ \E hr \in HResults : AppendKnownCategory(hr)
  \/ \E hr \in HResults : AppendCategory(hr)
  \/ pc = "AppendCategory" /\ ii <= Len(category.items)
       /\ \E fail \in Range(BuilderCalls(item)) \cup { NONE } : AppendItem(fail)
  \/ \E hr \in AppendCategoryHResults : AppendToList(hr)
  \/ AppendCategoriesReturn
  \/ \E hr \in HResults : CommitList(hr)

Spec == Init /\ [][Next]_vars

(***************************************************************************)
(* Browser::SetUserTasks (browser_win.cc:629-673), one action per native   *)
(* call; a task's link is built in one step, `fail' naming the call of     *)
(* lines 648-664 that fails.  It returns a bool, "true" or "false" here.   *)
(***************************************************************************)
\* a UserTask; one with an icon and one without
UserTask(i, icon_path) ==
  [ program |-> Paths[i], arguments |-> "", description |-> "",
    title |-> Paths[i], icon_path |-> icon_path, icon_index |-> 0 ]

\* the vectors SetUserTasks is called with
UserTaskLists ==
  UNION { { [ i \in 1..k |-> UserTask(i, f[i]) ] : f \in [ 1..k -> { "", "a.ico" } ] }
          : k \in 0..MaxTasks }

\* the native calls made for one task (lines 648-664)
UserTaskCalls(task) ==
  << "CoCreateInstance", "SetPath", "SetArguments", "SetDescription" >>
    \o (IF task.icon_path # "" THEN << "SetIconLocation" >> ELSE << >>)
    \o << "SetTitle", "AddObject" >>

\* the IShellLink those calls build
UserTaskLink(task) ==
  [ kind |-> "link", path |-> task.program, arguments |-> task.arguments,
    title |-> task.title, description |-> task.description,
    icon_path |-> task.icon_path, icon_index |-> task.icon_index ]

\* SetUserTasks returns b
ReturnBool(b) ==
  /\ retval' = IF b THEN "true" ELSE "false"
  /\ pc' = "done"

\* the variables SetUserTasks has no use for
jump_list_vars ==
  << arg_vars, begin_vars, provider_vars, categories_vars, category_result,
     appended_count, result, fold_input, earlier >>

\* line 629: entry; the list object and the locals of the previous update
\* are gone
SetUserTasks(ts) ==
  /\ pc \in { "idle", "done" }
  /\ tasks' = [ given |-> TRUE, list |-> ts ]
  /\ val' = NONE
  /\ delete_jump_list' = FALSE
  /\ get_categories' = FALSE
  /\ FreshLocals
  /\ destinations' = "none"
  /\ pending' = << >>
  /\ persisted' = Prior
  /\ calls' = << >>
  /\ retval' = NONE
  /\ pc' = "SetUserTasks:CoCreateInstance"
  /\ UNCHANGED fold_input

\* lines 630-632: destinations.CoCreateInstance(CLSID_DestinationList)
TasksCoCreateInstance(hr) ==
  /\ pc = "SetUserTasks:CoCreateInstance"
  /\ calls' = Append(calls, Call("CoCreateInstance", hr, 0, 0))
  /\ IF FAILED(hr)
     THEN ReturnBool(FALSE) /\ UNCHANGED destinations
     ELSE /\ destinations' = "idle"
          /\ pc' = "SetUserTasks:SetAppID"
          /\ UNCHANGED retval
  /\ UNCHANGED << jump_list_vars, tasks, collection, ii, pending, persisted >>

\* lines 633-634: destinations->SetAppID(GetAppUserModelID())
TasksSetAppID(hr) ==
  /\ pc = "SetUserTasks:SetAppID"
  /\ calls' = Append(calls, Call("SetAppID", hr, 0, 0))
  /\ IF FAILED(hr)
     THEN ReturnBool(FALSE)
     ELSE pc' = "SetUserTasks:BeginList" /\ UNCHANGED retval
  /\ UNCHANGED << jump_list_vars, tasks, collection, ii, list_vars >>

\* lines 636-640: destinations->BeginList(&max_slots, IID_PPV_ARGS(&removed))
TasksBeginList(hr) ==
  /\ pc = "SetUserTasks:BeginList"
  /\ calls' = Append(calls, Call("BeginList", hr, 0, 0))
  /\ IF FAILED(hr)
     THEN ReturnBool(FALSE) /\ UNCHANGED << destinations, pending >>
     ELSE /\ destinations' = "began"
          /\ pending' = << >>
          /\ pc' = "SetUserTasks:collection"
          /\ UNCHANGED retval
  /\ UNCHANGED << jump_list_vars, tasks, collection, ii, persisted >>

\* lines 642-644: collection.CoCreateInstance(CLSID_EnumerableObjectCollection)
TasksCollection(hr) ==
  /\ pc = "SetUserTasks:collection"
  /\ calls' = Append(calls, Call("CoCreateInstance(collection)", hr, 0, 0))
  /\ collection' = << >>
  /\ IF FAILED(hr)
     THEN ReturnBool(FALSE) /\ UNCHANGED ii
     ELSE /\ ii' = 1
          /\ pc' = "SetUserTasks:task"
          /\ UNCHANGED retval
  /\ UNCHANGED << jump_list_vars, tasks, list_vars >>

\* lines 646-666: one turn of the loop over tasks
TasksLink(fail) ==
  /\ pc = "SetUserTasks:task"
  /\ ii <= Len(tasks.list)
  /\ fail \in Range(UserTaskCalls(tasks.list[ii])) \cup { NONE }
  /\ IF fail # NONE
     THEN /\ calls' = Append(calls, Call("task", E_FAIL, 0, ii))
          /\ ReturnBool(FALSE)
          /\ UNCHANGED << collection, ii >>
     ELSE /\ calls' = Append(calls, Call("task", S_OK, 0, ii))
          /\ collection' = Append(collection, UserTaskLink(tasks.list[ii]))
          /\ ii' = ii + 1
          /\ UNCHANGED << pc, retval >>
  /\ UNCHANGED << jump_list_vars, tasks, list_vars >>

\* lines 668-671: destinations->AddUserTasks(task_array), unchecked
TasksAddUserTasks(hr) ==
  /\ pc = "SetUserTasks:task"
  /\ ii > Len(tasks.list)
  /\ calls' = Append(calls, Call("AddUserTasks", hr, 0, 0))
  /\ pending' = IF SUCCEEDED(hr)
                THEN Append(pending, [ kind |-> TASKS, name |-> "",
                                       items |-> collection ])
                ELSE pending
  /\ pc' = "SetUserTasks:CommitList"
  /\ UNCHANGED << jump_list_vars, tasks, collection, ii, retval, destinations,
                  persisted >>

\* line 672: return SUCCEEDED(destinations->CommitList())
TasksCommitList(hr) ==
  /\ pc = "SetUserTasks:CommitList"
  /\ calls' = Append(calls, Call("CommitList", hr, 0, 0))
  /\ IF FAILED(hr)
     THEN UNCHANGED << destinations, persisted >>
     ELSE /\ destinations' = "committed"
          /\ persisted' = [ tag |-> "committed", sections |-> pending ]
  /\ ReturnBool(SUCCEEDED(hr))
  /\ UNCHANGED << jump_list_vars, tasks, collection, ii, pending >>

(***************************************************************************)
(* Updates one after another, of both kinds, with the history variable     *)
(* `earlier' recording at each entry how the update before stood.          *)
(* BeginList hands out one of several snapshots; the provider returns one  *)
(* of a few values.                                                        *)
(***************************************************************************)
BeginListSnapshots ==
  BeginListResults \cup
    { [ min_slots |-> 4,
        removed |-> [ count_ok |-> TRUE, objs |-> << RemovedShellItem >> ] ],
      [ min_slots |-> 7, removed |-> NoRemoved ] }

FewProviderValues ==
  { [ array |-> FALSE, elems |-> << >> ],
    [ array |-> TRUE, elems |-> << JsCategory(RECENT, << >>) >> ],
    [ array |-> TRUE,
      elems |-> << JsCategory(TASKS, << JsItem(TASK, 1) >>),
                   JsCategory(CUSTOM, << JsItem(FILE, 1) >>) >> ] }

NextUpdates ==
  \/ \E v \in Values : SetJumpList(v) /\ earlier' = Snapshot
  \/ \E ts \in UserTaskLists : SetUserTasks(ts) /\ earlier' = Snapshot
  \/ \E hr \in HResults : CoCreateInstance(hr)
  \/ \E hr \in HResults : DeleteList(hr)
  \/ \E hr \in HResults : SetAppID(hr)
  \/ \E hr \in HResults, out \in BeginListSnapshots : BeginList(hr, out)
  \/ \E garbage \in 0..1 : ConvertRemoved(garbage)
  \/ \E value \in FewProviderValues : Run(value)
  \/ ConvertFromV8
  \/ \E hr \in HResults : AbortList(hr)
  \/ \E hr \in HResults : AppendKnownCategory(hr)
  \/ \E hr \in HResults : AppendCategory(hr)
  \/ pc = "AppendCategory" /\ ii <= Len(category.items)
       /\ \E fail \in Range(BuilderCalls(item)) \cup { NONE } : AppendItem(fail)
  \/ \E hr \in AppendCategoryHResults : AppendToList(hr)
  \/ AppendCategoriesReturn
  \/ \E hr \in HResults : CommitList(hr)
  \/ \E hr \in HResults : TasksCoCreateInstance(hr)
  \/ \E hr \in HResults : TasksSetAppID(hr)
  \/ \E hr \in HResults : TasksBeginList(hr)
  \/ \E hr \in HResults : TasksCollection(hr)
  \/ pc = "SetUserTasks:task" /\ ii <= Len(tasks.list)
       /\ \E fail \in Range(UserTaskCalls(tasks.list[ii])) \cup { NONE } :
            TasksLink(fail)
  \/ \E hr \in HResults : TasksAddUserTasks(hr)
  \/ \E hr \in HResults : TasksCommitList(hr)

SpecUpdates == Init /\ [][NextUpdates]_vars

(***************************************************************************)
(* The fold of AppendCategories on its own: the loop of lines 484-512 run  *)
(* over every sequence of per-category results that AppendCategory and     *)
(* AppendKnownCategory can give.                                           *)
(***************************************************************************)
CategoryResults == JumpListResult \ { ARGUMENT_ERROR }

\* the sequences over S of length at most n
RECURSIVE SeqsUpTo(_, _)
SeqsUpTo(S, n) ==
  IF n = 0 THEN { << >> }
  ELSE { << >> } \cup { << x >> \o t : x \in S, t \in SeqsUpTo(S, n - 1) }

InitFold ==
  /\ pc = "fold"
  /\ val = NONE
  /\ delete_jump_list = FALSE
  /\ get_categories = FALSE
  /\ retval = NONE
  /\ min_slots = 0
  /\ removed = NoRemoved
  /\ removed_items = << >>
  /\ categories_val = NoValue
  /\ categories = << >>
  /\ result = NONE
  /\ categories_result = SUCCESS
  /\ latestResult = NONE
  /\ ci = 1
  /\ category_result = NONE
  /\ appended_count = 0
  /\ collection = << >>
  /\ ii = 0
  /\ provider_args = NoArgs
  /\ destinations = "none"
  /\ pending = << >>
  /\ persisted = Prior
  /\ calls = << >>
  /\ fold_input \in SeqsUpTo(CategoryResults, MaxResults)
  /\ tasks = NoTasks
  /\ earlier = NoEarlier

\* lines 485-511 for the category at ci, whose result is fold_input[ci]
FoldStep ==
  /\ pc = "fold"
  /\ ci <= Len(fold_input)
  /\ latestResult' = fold_input[ci]
  /\ categories_result' = FoldResult(categories_result, fold_input[ci])
  /\ ci' = ci + 1
  /\ UNCHANGED << pc, arg_vars, begin_vars, provider_vars, category_vars,
                  result, retval, list_vars, calls, fold_input,
                  tasks, earlier >>

NextFold == FoldStep

SpecFold == InitFold /\ [][NextFold]_vars

(***************************************************************************)
(* The category parser on its own: Converter<JumpListCategory>::FromV8     *)
(* (browser_win.cc:237-262) applied, at line 711, to an array of one       *)
(* object with every combination of present and absent `name', `type' and  *)
(* `items'.                                                                *)
(***************************************************************************)
\* the values of `type': the four kinds and a string that is none of them
CategoryTypeStrings == CategoryTypes \cup { "bogus" }

\* the objects handed to the parser; a property that is absent reads as ""
CategoryObjects ==
  { [ dict |-> TRUE,
      keys |-> ks,
      name |-> IF "name" \in ks THEN n ELSE "",
      type |-> IF "type" \in ks THEN t ELSE "",
      items |-> IF "items" \in ks THEN its ELSE << >> ]
    : ks \in SUBSET { "name", "type", "items" },
      n \in { "", "Custom" },
      t \in CategoryTypeStrings,
      its \in JsItemSeqs(0) \cup JsItemSeqs(1) }

\* the update has run the provider, which returned an array of one object
InitParse ==
  /\ pc = "ConvertFromV8"
  /\ val = "function"
  /\ delete_jump_list = FALSE
  /\ get_categories = TRUE
  /\ retval = NONE
  /\ min_slots = 10
  /\ removed = NoRemoved
  /\ removed_items = << >>
  /\ \E c \in CategoryObjects :
       categories_val = [ array |-> TRUE, elems |-> << c >> ]
  /\ categories = << >>
  /\ result = SUCCESS
  /\ categories_result = NONE
  /\ latestResult = NONE
  /\ ci = 0
  /\ category_result = NONE
  /\ appended_count = 0
  /\ collection = << >>
  /\ ii = 0
  /\ provider_args = [ run |-> TRUE, min_slots |-> 10, removed_items |-> << >> ]
  /\ destinations = "began"
  /\ pending = << >>
  /\ persisted = Prior
  /\ calls = << Call("CoCreateInstance", S_OK, 0, 0), Call("SetAppID", S_OK, 0, 0),
                Call("BeginList", S_OK, 0, 0), Call("Run", S_OK, 0, 0) >>
  /\ fold_input = << >>
  /\ tasks = NoTasks
  /\ earlier = NoEarlier

NextParse == ConvertFromV8

SpecParse == InitParse /\ [][NextParse]_vars

(***************************************************************************)
(* AppendCategories on its own (browser_win.cc:711-719): the update from   *)
(* the moment the provider has returned any of the values of               *)
(* ProviderValues, with BeginList's transaction open.                      *)
(***************************************************************************)
InitAppend ==
  /\ pc = "ConvertFromV8"
  /\ val = "function"
  /\ delete_jump_list = FALSE
  /\ get_categories = TRUE
  /\ retval = NONE
  /\ min_slots = 10
  /\ removed = NoRemoved
  /\ removed_items = << >>
  /\ categories_val \in ProviderValues
  /\ categories = << >>
  /\ result = SUCCESS
  /\ categories_result = NONE
  /\ latestResult = NONE
  /\ ci = 0
  /\ category_result = NONE
  /\ appended_count = 0
  /\ collection = << >>
  /\ ii = 0
  /\ provider_args = [ run |-> TRUE, min_slots |-> 10, removed_items |-> << >> ]
  /\ destinations = "began"
  /\ pending = << >>
  /\ persisted = Prior
  /\ calls = << Call("CoCreateInstance", S_OK, 0, 0), Call("SetAppID", S_OK, 0, 0),
                Call("BeginList", S_OK, 0, 0), Call("Run", S_OK, 0, 0) >>
  /\ fold_input = << >>
  /\ tasks = NoTasks
  /\ earlier = NoEarlier

NextAppend ==
  \/ ConvertFromV8
  \/ \E hr \in HResults : AbortList(hr)
  \/ \E hr \in HResults : AppendKnownCategory(hr)
  \/ \E hr \in HResults : AppendCategory(hr)
  \/ pc = "AppendCategory" /\ ii <= Len(category.items)
       /\ \E fail \in Range(BuilderCalls(item)) \cup { NONE } : AppendItem(fail)
  \/ \E hr \in AppendCategoryHResults : AppendToList(hr)
  \/ AppendCategoriesReturn
  \/ \E hr \in HResults : CommitList(hr)

SpecAppend == InitAppend /\ [][NextAppend]_vars

(***************************************************************************)
(* The older revision of Browser::SetJumpList (src/unnamed/part_000:       *)
(* 379-449), one action per native call.  It returns nothing ("void"       *)
(* here), throws for an argument that is neither null nor a function       *)
(* without returning, converts no removed item, and appends without        *)
(* keeping a result.  Its builders (part_000:187-229) make the calls of    *)
(* AppendTask, AppendSeparator and AppendFile and drop their outcome.      *)
(***************************************************************************)
VOID == "void"

\* Converter<JumpListCategory>::FromV8 of part_000:132-166: the name is the
\* property "category", and "tasks" is no type string
CategoryFromV8_000(js) ==
  IF ~js.dict THEN [ ok |-> FALSE, out |-> EmptyCategory ]
  ELSE
    LET name == IF Has(js, "category") THEN js.name ELSE ""
        items == ItemsFromV8(js.items)
    IN IF Has(js, "category") /\ name = ""
       THEN [ ok |-> FALSE, out |-> EmptyCategory ]
       ELSE IF Has(js, "type") /\ js.type \notin { "frequent", "recent", "custom" }
       THEN [ ok |-> FALSE, out |-> EmptyCategory ]
       ELSE
         LET type == IF Has(js, "type")
                     THEN CategoryTypeFromV8(js.type).type
                     ELSE IF name = "" THEN TASKS ELSE CUSTOM
         IN IF type = TASKS \/ type = CUSTOM
            THEN IF Has(js, "items") /\ items.ok
                 THEN [ ok |-> TRUE,
                        out |-> [ type |-> type, name |-> name,
                                  items |-> items.out ] ]
                 ELSE [ ok |-> FALSE, out |-> EmptyCategory ]
            ELSE [ ok |-> TRUE,
                   out |-> [ type |-> type, name |-> name, items |-> << >> ] ]

\* part_000:427: mate::ConvertFromV8(args->isolate(), retval, &categories)
RECURSIVE CategoriesFromV8_000(_)
CategoriesFromV8_000(vals) ==
  IF vals = << >> THEN [ ok |-> TRUE, out |-> << >> ]
  ELSE LET head == CategoryFromV8_000(Head(vals))
           tail == CategoriesFromV8_000(Tail(vals))
       IN IF head.ok /\ tail.ok
          THEN [ ok |-> TRUE, out |-> << head.out >> \o tail.out ]
          ELSE [ ok |-> FALSE, out |-> << >> ]

\* the values a provider may return to the older revision: no array, a
\* Recent category, a Tasks and a Custom category, a category typed "tasks"
ProviderValues_000 ==
  { [ array |-> FALSE, elems |-> << >> ],
    [ array |-> TRUE, elems |-> << JsCategory(RECENT, << >>) >> ],
    [ array |-> TRUE,
      elems |-> << [ JsCategory(TASKS, << JsItem(TASK, 1) >>)
                       EXCEPT !.keys = { "items" } ],
                   [ JsCategory(CUSTOM, << JsItem(SEPARATOR, 1), JsItem(FILE, 2) >>)
                       EXCEPT !.keys = { "category", "items" } ] >> ],
    [ array |-> TRUE, elems |-> << JsCategory(TASKS, << >>) >> ] }

\* part_000:438, 447: the function returns
Return_000 ==
  /\ retval' = VOID
  /\ pc' = "done"

\* part_000:379-386: entry with the argument v; after ThrowError the
\* function goes on
SetJumpList_000(v) ==
  /\ pc \in { "idle", "done", "crashed" }
  /\ val' = v
  /\ delete_jump_list' = (v = "null")
  /\ get_categories' = (v = "function")
  /\ FreshLocals
  /\ destinations' = "none"
  /\ pending' = << >>
  /\ persisted' = Prior
  /\ calls' = IF v # "null" /\ v # "function"
              THEN << Call("ThrowError", S_OK, 0, 0) >>
              ELSE << >>
  /\ retval' = NONE
  /\ pc' = "CoCreateInstance"
  /\ tasks' = NoTasks
  /\ UNCHANGED << fold_input, earlier >>

\* part_000:388-390: destinations.CoCreateInstance(CLSID_DestinationList)
CoCreateInstance_000(hr) ==
  /\ pc = "CoCreateInstance"
  /\ calls' = Append(calls, Call("CoCreateInstance", hr, 0, 0))
  /\ IF FAILED(hr)
     THEN /\ Return_000
          /\ UNCHANGED destinations
     ELSE /\ destinations' = "idle"
          /\ pc' = IF delete_jump_list THEN "DeleteList" ELSE "SetAppID"
          /\ UNCHANGED retval
  /\ UNCHANGED << arg_vars, begin_vars, provider_vars, categories_vars,
                  category_vars, result, pending, persisted, fold_input,
                  tasks, earlier >>

\* part_000:392-395: destinations->DeleteList(GetAppUserModelID())
DeleteList_000(hr) ==
  /\ pc = "DeleteList"
  /\ calls' = Append(calls, Call("DeleteList", hr, 0, 0))
  /\ IF SUCCEEDED(hr)
     THEN /\ persisted' = [ tag |-> "deleted", sections |-> << >> ]
          /\ destinations' = "deleted"
     ELSE UNCHANGED << persisted, destinations >>
  /\ Return_000
  /\ UNCHANGED << arg_vars, begin_vars, provider_vars, categories_vars,
                  category_vars, result, pending, fold_input,
                  tasks, earlier >>

\* part_000:397-398: destinations->SetAppID(GetAppUserModelID())
SetAppID_000(hr) ==
  /\ pc = "SetAppID"
  /\ calls' = Append(calls, Call("SetAppID", hr, 0, 0))
  /\ IF FAILED(hr)
     THEN Return_000
     ELSE pc' = "BeginList" /\ UNCHANGED retval
  /\ UNCHANGED << arg_vars, begin_vars, provider_vars, categories_vars,
                  category_vars, result, list_vars, fold_input,
                  tasks, earlier >>

\* part_000:400-404: destinations->BeginList(&min_slots, IID_PPV_ARGS(&removed))
BeginList_000(hr, out) ==
  /\ pc = "BeginList"
  /\ calls' = Append(calls, Call("BeginList", hr, 0, 0))
  /\ IF FAILED(hr)
     THEN /\ Return_000
          /\ UNCHANGED << min_slots, removed, destinations, pending >>
     ELSE /\ min_slots' = out.min_slots
          /\ removed' = out.removed
          /\ destinations' = "began"
          /\ pending' = << >>
          /\ pc' = "Run"
          /\ UNCHANGED retval
  /\ UNCHANGED << arg_vars, removed_items, provider_args, provider_vars,
                  categories_vars, category_vars, result, persisted,
                  fold_input, tasks, earlier >>

\* part_000:406-425: the loop over `removed' fills a local item and pushes
\* nothing, so removed_items is empty when get_categories.Run(min_slots,
\* removed_items) is called.  After an argument that is no function
\* get_categories is a null callback, and running it calls through a null
\* pointer: the process ends.
Run_000(value) ==
  /\ pc = "Run"
  /\ IF get_categories
     THEN /\ provider_args' = [ run |-> TRUE, min_slots |-> min_slots,
                                removed_items |-> removed_items ]
          /\ calls' = Append(calls, Call("Run", S_OK, 0, 0))
          /\ categories_val' = value
          /\ pc' = "ConvertFromV8"
     ELSE /\ value = NoValue
          /\ calls' = Append(calls, Call("Run", E_FAIL, 0, 0))
          /\ pc' = "crashed"
          /\ UNCHANGED << provider_args, categories_val >>
  /\ UNCHANGED << arg_vars, min_slots, removed, removed_items, categories,
                  categories_vars, category_vars, result, retval, list_vars,
                  fold_input, tasks, earlier >>

\* part_000:426-428: the conversion of the provider's value
ConvertFromV8_000 ==
  /\ pc = "ConvertFromV8"
  /\ LET conv == IF categories_val.array
                 THEN CategoriesFromV8_000(categories_val.elems)
                 ELSE [ ok |-> FALSE, out |-> << >> ]
     IN IF conv.ok
        THEN /\ categories' = conv.out
             /\ ci' = 1
             /\ pc' = "AppendCategories"
        ELSE /\ pc' = "AbortList"
             /\ UNCHANGED << categories, ci >>
  /\ UNCHANGED << arg_vars, begin_vars, categories_val, categories_result,
                  latestResult, category_vars, result, retval, list_vars,
                  calls, fold_input, tasks, earlier >>

\* part_000:435-441: destinations->AppendKnownCategory(KDC_RECENT / KDC_FREQUENT)
AppendKnownCategory_000(hr) ==
  /\ pc = "AppendCategories"
  /\ ci <= Len(categories)
  /\ category.type \in { RECENT, FREQUENT }
  /\ calls' = Append(calls, Call("AppendKnownCategory", hr, ci, 0))
  /\ pending' = IF SUCCEEDED(hr)
                THEN Append(pending, [ kind |-> category.type,
                                       name |-> "", items |-> << >> ])
                ELSE pending
  /\ ci' = ci + 1
  /\ UNCHANGED << pc, arg_vars, begin_vars, provider_vars, categories_result,
                  latestResult, category_vars, result, retval, destinations,
                  persisted, fold_input, tasks, earlier >>

\* part_000:231-238: AppendJumpListCategory is entered; it returns for an
\* empty category and when the collection cannot be created
AppendJumpListCategory_000(hr) ==
  /\ pc = "AppendCategories"
  /\ ci <= Len(categories)
  /\ category.type \in { TASKS, CUSTOM }
  /\ collection' = << >>
  /\ IF category.items = << >>
     THEN /\ ci' = ci + 1
          /\ ii' = 0
          /\ UNCHANGED << pc, calls >>
     ELSE /\ calls' = Append(calls, Call("CoCreateInstance(collection)", hr, ci, 0))
          /\ IF FAILED(hr)
             THEN /\ ci' = ci + 1
                  /\ ii' = 0
                  /\ UNCHANGED pc
             ELSE /\ ii' = 1
                  /\ pc' = "AppendCategory"
                  /\ UNCHANGED ci
  /\ UNCHANGED << arg_vars, begin_vars, provider_vars, categories_result,
                  latestResult, category_result, appended_count, result,
                  retval, list_vars, fold_input, tasks, earlier >>

\* part_000:240-260: one turn of the item loop
AppendItem_000(fail) ==
  /\ pc = "AppendCategory"
  /\ ii <= Len(category.items)
  /\ fail \in Range(BuilderCalls(item)) \cup { NONE }
  /\ IF item.type = SEPARATOR /\ category.type # TASKS
     THEN /\ fail = NONE
          /\ UNCHANGED << collection, calls >>
     ELSE LET built == Build(item, collection, fail) IN
          /\ collection' = built.collection
          /\ calls' = Append(calls, Call(BuilderOf(item),
                                         IF built.ok THEN S_OK ELSE E_FAIL,
                                         ci, ii))
  /\ ii' = ii + 1
  /\ UNCHANGED << pc, arg_vars, begin_vars, provider_vars, categories_vars,
                  category_result, appended_count, result, retval, list_vars,
                  fold_input, tasks, earlier >>

\* part_000:262-280: the collection, empty or not, goes to the destination
\* list and the HRESULT is only logged
AppendToList_000(hr) ==
  /\ pc = "AppendCategory"
  /\ ii > Len(category.items)
  /\ IF category.type = TASKS
     THEN /\ hr \in HResults
          /\ calls' = Append(calls, Call("AddUserTasks", hr, ci, 0))
     ELSE calls' = Append(calls, Call("AppendCategory", hr, ci, 0))
  /\ pending' = IF SUCCEEDED(hr)
                THEN Append(pending, [ kind |-> category.type,
                                       name |-> category.name,
                                       items |-> collection ])
                ELSE pending
  /\ ci' = ci + 1
  /\ pc' = "AppendCategories"
  /\ UNCHANGED << arg_vars, begin_vars, provider_vars, categories_result,
                  latestResult, category_vars, result, retval, destinations,
                  persisted, fold_input, tasks, earlier >>

\* part_000:443-444: after the last category, destinations->CommitList()
CommitList_000(hr) ==
  /\ pc = "AppendCategories"
  /\ ci > Len(categories)
  /\ calls' = Append(calls, Call("CommitList", hr, 0, 0))
  /\ IF FAILED(hr)
     THEN UNCHANGED << destinations, persisted >>
     ELSE /\ destinations' = "committed"
          /\ persisted' = [ tag |-> "committed", sections |-> pending ]
  /\ Return_000
  /\ UNCHANGED << arg_vars, begin_vars, provider_vars, categories_vars,
                  category_vars, result, pending, fold_input, tasks, earlier >>

\* part_000:445-447: destinations->AbortList()
AbortList_000(hr) ==
  /\ pc = "AbortList"
  /\ calls' = Append(calls, Call("AbortList", hr, 0, 0))
  /\ IF SUCCEEDED(hr)
     THEN destinations' = "aborted" /\ pending' = << >>
     ELSE UNCHANGED << destinations, pending >>
  /\ Return_000
  /\ UNCHANGED << arg_vars, begin_vars, provider_vars, categories_vars,
                  category_vars, result, persisted, fold_input, tasks, earlier >>

Next_000 ==
  \/ \E v \in Values : SetJumpList_000(v)
  \/ \E hr \in HResults : CoCreateInstance_000(hr)
  \/ \E hr \in HResults : DeleteList_000(hr)
  \/ \E hr \in HResults : SetAppID_000(hr)
  \/ pc = "BeginList" /\ \E hr \in HResults, out \in BeginListResults :
                           BeginList_000(hr, out)
  \/ pc = "Run" /\ \E value \in ProviderValues_000 : Run_000(value)
  \/ ConvertFromV8_000
  \/ \E hr \in HResults : AppendKnownCategory_000(hr)
  \/ \E hr \in HResults : AppendJumpListCategory_000(hr)
  \/ pc = "AppendCategory" /\ ii <= Len(category.items)
       /\ \E fail \in Range(BuilderCalls(item)) \cup { NONE } : AppendItem_000(fail)
  \/ \E hr \in AppendCategoryHResults : AppendToList_000(hr)
  \/ \E hr \in HResults : CommitList_000(hr)
  \/ \E hr \in HResults : AbortList_000(hr)

Spec_000 == Init /\ [][Next_000]_vars

(***************************************************************************)
(* The item builders inside AppendCategory (browser_win.cc:333-378,        *)
(* 400-431): the update from the moment the provider has returned one      *)
(* Tasks or Custom category of at most MaxItems items, tasks with an icon  *)
(* among them.                                                             *)
(***************************************************************************)
\* a JavaScript task object with an icon, the i-th of its category
JsTaskWithIcon(i) ==
  [ JsItem(TASK, i) EXCEPT !.keys = @ \cup { "iconPath", "iconIndex" },
                           !.iconPath = "icon.ico",
                           !.iconIndex = i ]

\* the JavaScript item objects at position i
JsItemsAt(i) == { JsItem(type, i) : type \in ItemTypes } \cup { JsTaskWithIcon(i) }

\* the JavaScript arrays of k such items
JsBuilderItemSeqs(k) ==
  { f \in [ 1..k -> UNION { JsItemsAt(i) : i \in 1..k } ] :
      \A i \in 1..k : f[i] \in JsItemsAt(i) }

BuilderValues ==
  { [ array |-> TRUE, elems |-> << JsCategory(type, items) >> ] :
      type \in { TASKS, CUSTOM },
      items \in UNION { JsBuilderItemSeqs(k) : k \in 1..MaxItems } }

InitBuilders ==
  /\ pc = "ConvertFromV8"
  /\ val = "function"
  /\ delete_jump_list = FALSE
  /\ get_categories = TRUE
  /\ retval = NONE
  /\ min_slots = 10
  /\ removed = NoRemoved
  /\ removed_items = << >>
  /\ categories_val \in BuilderValues
  /\ categories = << >>
  /\ result = SUCCESS
  /\ categories_result = NONE
  /\ latestResult = NONE
  /\ ci = 0
  /\ category_result = NONE
  /\ appended_count = 0
  /\ collection = << >>
  /\ ii = 0
  /\ provider_args = [ run |-> TRUE, min_slots |-> 10, removed_items |-> << >> ]
  /\ destinations = "began"
  /\ pending = << >>
  /\ persisted = Prior
  /\ calls = << Call("CoCreateInstance", S_OK, 0, 0), Call("SetAppID", S_OK, 0, 0),
                Call("BeginList", S_OK, 0, 0), Call("Run", S_OK, 0, 0) >>
  /\ fold_input = << >>
  /\ tasks = NoTasks
  /\ earlier = NoEarlier

NextBuilders ==
  \/ ConvertFromV8
  \/ \E hr \in HResults : AppendCategory(hr)
  \/ pc = "AppendCategory" /\ ii <= Len(category.items)
       /\ \E fail \in Range(BuilderCalls(item)) \cup { NONE } : AppendItem(fail)
  \/ \E hr \in AppendCategoryHResults : AppendToList(hr)
  \/ AppendCategoriesReturn
  \/ \E hr \in HResults : CommitList(hr)

SpecBuilders == InitBuilders /\ [][NextBuilders]_vars

(***************************************************************************)
(* jumplist::ConvertRemovedJumpListItems on its own (browser_win.cc:       *)
(* 564-588): the update from the moment BeginList has handed out any array *)
(* of at most MaxRemoved removed objects.  The object at position i is     *)
(* told from the others by its strings, all Paths[i].                      *)
(***************************************************************************)
\* the reads of an IShellItem and of an IShellLink that fail together
ShellItemFails == { { }, { "GetDisplayName" } }
ShellLinkFails ==
  { { }, { "GetPath" }, { "Arguments" }, { "ArgumentsType" }, { "Title" },
    { "TitleType" }, { "GetIconLocation" }, { "GetDescription" },
    { "Arguments", "TitleType", "GetIconLocation", "GetDescription" } }

\* the removed object at position i
RemovedObject(kind, i, fails) ==
  [ kind |-> kind, path |-> Paths[i],
    arguments |-> IF kind = "link" THEN Paths[i] ELSE "",
    title |-> IF kind = "link" THEN Paths[i] ELSE "",
    description |-> IF kind = "link" THEN Paths[i] ELSE "",
    icon_path |-> IF kind = "link" THEN Paths[i] ELSE "",
    icon_index |-> IF kind = "link" THEN i ELSE 0,
    fails |-> fails ]

RemovedObjects(i) ==
  { RemovedObject("item", i, f) : f \in ShellItemFails }
    \cup { RemovedObject("link", i, f) : f \in ShellLinkFails }
    \cup { RemovedObject("other", i, { }) }

\* the arrays of n removed objects
RemovedObjectSeqs(n) ==
  { f \in [ 1..n -> UNION { RemovedObjects(i) : i \in 1..n } ] :
      \A i \in 1..n : f[i] \in RemovedObjects(i) }

\* the IObjectArrays BeginList may hand out; GetCount fails on some
RemovedArrays ==
  { [ count_ok |-> ok, objs |-> objs ] :
      ok \in BOOLEAN,
      objs \in UNION { RemovedObjectSeqs(n) : n \in 0..MaxRemoved } }

InitRemoved ==
  /\ pc = "ConvertRemovedJumpListItems"
  /\ val = "function"
  /\ delete_jump_list = FALSE
  /\ get_categories = TRUE
  /\ retval = NONE
  /\ min_slots = 10
  /\ removed \in RemovedArrays
  /\ removed_items = << >>
  /\ categories_val = NoValue
  /\ categories = << >>
  /\ result = NONE
  /\ categories_result = NONE
  /\ latestResult = NONE
  /\ ci = 0
  /\ category_result = NONE
  /\ appended_count = 0
  /\ collection = << >>
  /\ ii = 0
  /\ provider_args = NoArgs
  /\ destinations = "began"
  /\ pending = << >>
  /\ persisted = Prior
  /\ calls = << Call("CoCreateInstance", S_OK, 0, 0), Call("SetAppID", S_OK, 0, 0),
                Call("BeginList", S_OK, 0, 0) >>
  /\ fold_input = << >>
  /\ tasks = NoTasks
  /\ earlier = NoEarlier

\* the values removed_count may hold when GetCount has not set it
NextRemoved == \E garbage \in 0..(MaxRemoved + 1) : ConvertRemoved(garbage)

SpecRemoved == InitRemoved /\ [][NextRemoved]_vars

(***************************************************************************)
(* Reading the state: the category AppendCategories has just finished, and *)
(* the calls made for it.                                                  *)
(***************************************************************************)
\* the loop of AppendCategories stands right after category ci - 1
JustFinished == pc = "AppendCategories" /\ ci > 1
last == categories[ci - 1]

\* the calls of the update made for category number cat
CallsFor(cat) == SelectSeq(calls, LAMBDA c : c.cat = cat)
\* the calls `op' among them
CallsOp(cat, op) == SelectSeq(calls, LAMBDA c : c.cat = cat /\ c.op = op)
\* the calls `op' of the whole update
AllCallsOp(op) == SelectSeq(calls, LAMBDA c : c.op = op)

Builders == { "AppendTask", "AppendSeparator", "AppendFile" }
AppendOps == { "AddUserTasks", "AppendCategory", "AppendKnownCategory" }

\* AppendCategory has just returned for a Tasks or Custom category
\* whose item loop ran to its end
LoopFinished ==
  /\ JustFinished
  /\ last.type \in { TASKS, CUSTOM }
  /\ last.items # << >>
  /\ ii = Len(last.items) + 1

\* the loop recorded CustomCategorySeparatorError
SeparatorRecorded(cat) ==
  cat.type # TASKS /\ \E i \in DOMAIN cat.items : cat.items[i].type = SEPARATOR

\* the HRESULT of the native append made for category number cat
\* (S_OK when none was made)
AppendHr(cat) ==
  LET made == SelectSeq(calls, LAMBDA c : c.cat = cat /\ c.op \in AppendOps)
  IN IF made = << >> THEN S_OK ELSE made[1].hr

(***************************************************************************)
(* C1.  A non-empty Tasks or Custom category in which no item was appended *)
(* makes AppendCategory return GenericError, or                            *)
(* CustomCategorySeparatorError when the loop recorded it; never Success.  *)
(* The code returns `result' as it stands (line 434), which is still       *)
(* SUCCESS when only builders failed.                                      *)
(***************************************************************************)
C1_NothingAppendedIsAnError ==
  (LoopFinished /\ appended_count = 0)
    => latestResult = IF SeparatorRecorded(last)
                      THEN CUSTOM_CATEGORY_SEPARATOR_ERROR
                      ELSE GENERIC_ERROR

\* a Tasks category all of whose builders failed came back as Success
C1_NothingAppendedSuccess ==
  /\ LoopFinished
  /\ last.type = TASKS
  /\ appended_count = 0
  /\ CallsOp(ci - 1, "AddUserTasks") = << >>
  /\ latestResult = SUCCESS

(***************************************************************************)
(* C2.  When 0 < appended_count < items.size() and the loop recorded no    *)
(* specific error, AppendCategory does not return Success.  As claimed     *)
(* (GenericError whatever the native append does) it fails: a Custom       *)
(* category whose append-by-name fails with 0x80040F03 or E_ACCESSDENIED   *)
(* returns that code's error.  Amended: the result is GenericError unless  *)
(* the append-by-name of a Custom category fails with one of those two     *)
(* codes, and then it is the error of that code.                           *)
(***************************************************************************)
PartialNoSpecific ==
  /\ LoopFinished
  /\ 0 < appended_count
  /\ appended_count < Len(last.items)
  /\ ~SeparatorRecorded(last)

C2_PartialIsGeneric_Original ==
  PartialNoSpecific => latestResult = GENERIC_ERROR

C2_PartialIsNeverSuccess ==
  PartialNoSpecific =>
    /\ latestResult # SUCCESS
    /\ latestResult =
         IF last.type = CUSTOM /\ AppendHr(ci - 1) = DESTS_E_NO_MATCHING_ASSOC_HANDLER
         THEN MISSING_FILE_TYPE_REGISTRATION_ERROR
         ELSE IF last.type = CUSTOM /\ AppendHr(ci - 1) = E_ACCESSDENIED
         THEN CUSTOM_CATEGORY_ACCESS_DENIED_ERROR
         ELSE GENERIC_ERROR

\* a partly appended category whose native append succeeded
C2_Witness ==
  /\ PartialNoSpecific
  /\ \E t \in { TASKS, CUSTOM } : last.type = t
  /\ CallsFor(ci - 1)[Len(CallsFor(ci - 1))].op \in AppendOps
  /\ AppendHr(ci - 1) = S_OK
  /\ latestResult = GENERIC_ERROR

(***************************************************************************)
(* C3.  A Custom category holding a Separator: the separator is never      *)
(* added to the collection and every other item still goes to its builder. *)
(* As claimed (the result is CustomCategorySeparatorError whatever else    *)
(* happens) it fails: the result is GenericError when the collection       *)
(* cannot be created, and the error of the code when the append-by-name    *)
(* fails with 0x80040F03 or E_ACCESSDENIED.  Amended: outside those cases  *)
(* the result is CustomCategorySeparatorError.                             *)
(***************************************************************************)
CustomWithSeparator ==
  /\ JustFinished
  /\ last.type = CUSTOM
  /\ \E i \in DOMAIN last.items : last.items[i].type = SEPARATOR

\* item i of the category just finished went to its builder exactly once
PassedToBuilder(i) ==
  Len(SelectSeq(calls, LAMBDA c : c.cat = ci - 1 /\ c.item = i
                                    /\ c.op = BuilderOf(last.items[i]))) = 1

C3_SeparatorErrorAlways_Original ==
  CustomWithSeparator => latestResult = CUSTOM_CATEGORY_SEPARATOR_ERROR

C3_SeparatorInCustom ==
  CustomWithSeparator =>
    IF FAILED(CallsOp(ci - 1, "CoCreateInstance(collection)")[1].hr)
    THEN latestResult = GENERIC_ERROR
    ELSE /\ latestResult =
              IF AppendHr(ci - 1) = DESTS_E_NO_MATCHING_ASSOC_HANDLER
              THEN MISSING_FILE_TYPE_REGISTRATION_ERROR
              ELSE IF AppendHr(ci - 1) = E_ACCESSDENIED
              THEN CUSTOM_CATEGORY_ACCESS_DENIED_ERROR
              ELSE CUSTOM_CATEGORY_SEPARATOR_ERROR
         /\ \A k \in DOMAIN collection : collection[k].kind # "separator"
         /\ CallsOp(ci - 1, "AppendSeparator") = << >>
         /\ \A i \in DOMAIN last.items :
              last.items[i].type # SEPARATOR => PassedToBuilder(i)

\* a separator and an appended task in a Custom category that the list took
C3_Witness ==
  /\ CustomWithSeparator
  /\ Len(last.items) = 2
  /\ appended_count = 1
  /\ CallsOp(ci - 1, "AppendCategory") # << >>
  /\ AppendHr(ci - 1) = S_OK
  /\ latestResult = CUSTOM_CATEGORY_SEPARATOR_ERROR

(***************************************************************************)
(* C4.  AppendCategories returns the first per-category result that is     *)
(* neither Success nor GenericError if there is one, else GenericError if  *)
(* some category gave it, else Success; so Success exactly when every      *)
(* category gave Success, and [Success, MissingFileTypeRegistrationError,  *)
(* GenericError] folds to MissingFileTypeRegistrationError.                *)
(***************************************************************************)
Specific(r) == r # SUCCESS /\ r # GENERIC_ERROR

\* the fold the claim describes, of the results seq
ClaimedFold(seq) ==
  IF \E i \in DOMAIN seq : Specific(seq[i])
  THEN seq[CHOOSE i \in DOMAIN seq :
             Specific(seq[i]) /\ \A j \in 1..(i - 1) : ~Specific(seq[j])]
  ELSE IF \E i \in DOMAIN seq : seq[i] = GENERIC_ERROR
  THEN GENERIC_ERROR
  ELSE SUCCESS

C4_FoldPrecedence ==
  pc = "fold" =>
    LET done == SubSeq(fold_input, 1, ci - 1) IN
    /\ categories_result = ClaimedFold(done)
    /\ categories_result = SUCCESS <=> \A i \in DOMAIN done : done[i] = SUCCESS
    /\ done = << SUCCESS, MISSING_FILE_TYPE_REGISTRATION_ERROR, GENERIC_ERROR >>
         => categories_result = MISSING_FILE_TYPE_REGISTRATION_ERROR

\* a specific error after a generic one has replaced it
C4_Witness ==
  /\ pc = "fold"
  /\ ci = 4
  /\ fold_input = << GENERIC_ERROR, CUSTOM_CATEGORY_ACCESS_DENIED_ERROR,
                     MISSING_FILE_TYPE_REGISTRATION_ERROR >>
  /\ categories_result = CUSTOM_CATEGORY_ACCESS_DENIED_ERROR

(***************************************************************************)
(* C5.  An update with the delete signal returns Success when DeleteList   *)
(* succeeds and GenericError when it fails.  The code drops DeleteList's   *)
(* HRESULT and returns SUCCESS (lines 691-692).                            *)
(***************************************************************************)
C5_DeleteResultFollowsDeleteList ==
  (pc = "done" /\ delete_jump_list /\ AllCallsOp("DeleteList") # << >>)
    => retval = IF SUCCEEDED(AllCallsOp("DeleteList")[1].hr)
                THEN SUCCESS ELSE GENERIC_ERROR

\* DeleteList failed, the list is what it was, and the update gave Success
C5_FailedDeleteSuccess ==
  /\ pc = "done"
  /\ delete_jump_list
  /\ AllCallsOp("DeleteList") # << >>
  /\ FAILED(AllCallsOp("DeleteList")[1].hr)
  /\ persisted = Prior
  /\ retval = SUCCESS

(***************************************************************************)
(* C6.  When the provider's value does not parse into a category list, the *)
(* update calls AbortList exactly once, never CommitList nor any append    *)
(* operation, returns ArgumentError, and leaves the persisted list as it   *)
(* was before the update.                                                  *)
(***************************************************************************)
\* the provider has returned a value that is no category list
ProviderValueMalformed ==
  /\ AllCallsOp("Run") # << >>
  /\ categories_val \in MalformedValues

C6_MalformedListAborts ==
  ProviderValueMalformed =>
    /\ pc \in { "ConvertFromV8", "AbortList", "done" }
    /\ AllCallsOp("CommitList") = << >>
    /\ \A i \in DOMAIN calls :
         calls[i].op \notin AppendOps \cup Builders
                            \cup { "CoCreateInstance(collection)" }
    /\ persisted = Prior
    /\ pending = << >>
    /\ pc = "done" =>
         /\ Len(AllCallsOp("AbortList")) = 1
         /\ calls[Len(calls)].op = "AbortList"
         /\ retval = ARGUMENT_ERROR

\* the update returned after a list whose second category did not parse
C6_Witness ==
  /\ pc = "done"
  /\ ProviderValueMalformed
  /\ categories_val.array
  /\ Len(categories_val.elems) = 2
  /\ Len(AllCallsOp("AbortList")) = 1
  /\ retval = ARGUMENT_ERROR

(***************************************************************************)
(* C7.  When CommitList fails, the update returns what AppendCategories    *)
(* returned if that was not Success, and GenericError if it was; never     *)
(* Success.                                                                *)
(***************************************************************************)
CommitFailed ==
  /\ pc = "done"
  /\ AllCallsOp("CommitList") # << >>
  /\ FAILED(AllCallsOp("CommitList")[1].hr)

C7_CommitFailureKeepsEarlierError ==
  CommitFailed =>
    /\ retval = IF categories_result = SUCCESS THEN GENERIC_ERROR
                ELSE categories_result
    /\ retval # SUCCESS

\* a failed commit after a category that lacked its file type registration
C7_Witness ==
  /\ CommitFailed
  /\ categories_result = MISSING_FILE_TYPE_REGISTRATION_ERROR
  /\ retval = MISSING_FILE_TYPE_REGISTRATION_ERROR

(***************************************************************************)
(* C8.  For a Tasks or Custom category without items AppendCategory        *)
(* returns Success and makes no native call: no collection is created,     *)
(* neither AddUserTasks nor AppendCategory is invoked, no section is       *)
(* added.                                                                  *)
(***************************************************************************)
\* the sections the categories before ci added to the list
SectionsAppended ==
  Len(SelectSeq(calls, LAMBDA c : c.op \in AppendOps /\ SUCCEEDED(c.hr)))

C8_EmptyCategoryIsNoOp ==
  /\ (JustFinished /\ last.type \in { TASKS, CUSTOM } /\ last.items = << >>)
       => /\ latestResult = SUCCESS
          /\ CallsFor(ci - 1) = << >>
  /\ destinations = "began" => Len(pending) = SectionsAppended

\* an empty Custom category after a category that added a section
C8_Witness ==
  /\ JustFinished
  /\ ci = 3
  /\ last.type = CUSTOM
  /\ last.items = << >>
  /\ latestResult = SUCCESS
  /\ Len(pending) = 1

(***************************************************************************)
(* C9.  In a Tasks category a Separator is an item like any other: it      *)
(* goes to AppendSeparator, counts as appended exactly when that succeeds, *)
(* a failed one makes the category partly appended like a failed task or   *)
(* file, and the category never gives CustomCategorySeparatorError.        *)
(***************************************************************************)
\* the item loop of a Tasks category is running or has just ended
InTasksLoop ==
  \/ pc = "AppendCategory" /\ category.type = TASKS
  \/ LoopFinished /\ last.type = TASKS

\* the number of that category, and the category
tasks_index == IF pc = "AppendCategory" THEN ci ELSE ci - 1
tasks_category == categories[tasks_index]

C9_SeparatorInTasks ==
  /\ InTasksLoop =>
       /\ \A i \in 1..(ii - 1) :
            Len(SelectSeq(calls, LAMBDA c :
                  c.cat = tasks_index /\ c.item = i
                    /\ c.op = BuilderOf(tasks_category.items[i]))) = 1
       /\ appended_count =
            Len(SelectSeq(calls, LAMBDA c :
                  c.cat = tasks_index /\ c.op \in Builders /\ SUCCEEDED(c.hr)))
       /\ Len(SelectSeq(collection, LAMBDA o : o.kind = "separator")) =
            Len(SelectSeq(calls, LAMBDA c :
                  c.cat = tasks_index /\ c.op = "AppendSeparator"
                    /\ SUCCEEDED(c.hr)))
       /\ category_result # CUSTOM_CATEGORY_SEPARATOR_ERROR
       /\ pc = "AppendCategory" => category_result = SUCCESS
  /\ (LoopFinished /\ last.type = TASKS) =>
       /\ latestResult \in { SUCCESS, GENERIC_ERROR }
       /\ (\E i \in DOMAIN calls :
             /\ calls[i].cat = ci - 1
             /\ calls[i].op = "AppendSeparator"
             /\ FAILED(calls[i].hr)
             /\ appended_count > 0) => latestResult = GENERIC_ERROR

\* a Tasks category whose task was built and whose separator was not
C9_Witness ==
  /\ LoopFinished
  /\ last.type = TASKS
  /\ \E i \in DOMAIN calls :
       calls[i].cat = ci - 1 /\ calls[i].op = "AppendSeparator"
         /\ FAILED(calls[i].hr)
  /\ appended_count = 1
  /\ AppendHr(ci - 1) = S_OK
  /\ latestResult = GENERIC_ERROR

(***************************************************************************)
(* C10.  CommitList and AbortList are invoked only after BeginList         *)
(* succeeded in the same update; when SetAppID or BeginList fails the      *)
(* update returns GenericError and invokes neither the provider nor an     *)
(* append operation nor CommitList nor AbortList.                          *)
(***************************************************************************)
C10_NoTransactionWithoutBegin ==
  /\ \A i \in DOMAIN calls :
       calls[i].op \in { "CommitList", "AbortList" } =>
         \E j \in 1..(i - 1) : calls[j].op = "BeginList" /\ SUCCEEDED(calls[j].hr)
  /\ \A i \in DOMAIN calls :
       (calls[i].op \in { "SetAppID", "BeginList" } /\ FAILED(calls[i].hr)) =>
         /\ i = Len(calls)
         /\ pc = "done"
         /\ retval = GENERIC_ERROR
         /\ ~provider_args.run

\* the update returned because BeginList failed
C10_Witness ==
  /\ pc = "done"
  /\ calls # << >>
  /\ calls[Len(calls)].op = "BeginList"
  /\ FAILED(calls[Len(calls)].hr)
  /\ retval = GENERIC_ERROR

(***************************************************************************)
(* C11.  On the delete path DeleteList is the only operation on the        *)
(* destination list: the list object never had BeginList called on it, and *)
(* neither SetAppID, BeginList, an append, CommitList, AbortList nor the   *)
(* provider is invoked before or after it.                                 *)
(***************************************************************************)
C11_DeleteIsTheOnlyOperation ==
  delete_jump_list =>
    /\ \A i \in DOMAIN calls : calls[i].op \in { "CoCreateInstance", "DeleteList" }
    /\ Len(AllCallsOp("DeleteList")) <= 1
    /\ destinations \in { "none", "idle", "deleted" }
    /\ ~provider_args.run
    /\ pending = << >>
    /\ (pc = "done" /\ SUCCEEDED(calls[1].hr)) =>
         /\ Len(calls) = 2
         /\ calls[2].op = "DeleteList"

\* a delete that the list accepted, after which the update returned
C11_Witness ==
  /\ delete_jump_list
  /\ pc = "done"
  /\ Len(calls) = 2
  /\ calls[2].op = "DeleteList"
  /\ SUCCEEDED(calls[2].hr)
  /\ destinations = "deleted"

(***************************************************************************)
(* C12.  The persisted list changes only at a successful CommitList or     *)
(* DeleteList: appends between BeginList and CommitList leave it as it     *)
(* was, so does a failed CommitList, and so does AbortList, which also     *)
(* discards what the transaction appended.                                 *)
(***************************************************************************)
\* the last native call of the update was `op' and it succeeded
LastCallSucceeded(op) ==
  /\ calls # << >>
  /\ calls[Len(calls)].op = op
  /\ SUCCEEDED(calls[Len(calls)].hr)

ProviderValueParsed ==
  /\ provider_args.run
  /\ ci > 0
  /\ categories_val \notin MalformedValues

C13_CommitAttemptedOnce ==
  ProviderValueParsed =>
    /\ AllCallsOp("AbortList") = << >>
    /\ Len(AllCallsOp("CommitList")) <= 1
    /\ pc = "done" =>
         /\ Len(AllCallsOp("CommitList")) = 1
         /\ calls[Len(calls)].op = "CommitList"

\* every category failed, and the one commit that was attempted failed too
C13_Witness ==
  /\ ProviderValueParsed
  /\ pc = "done"
  /\ Len(categories) = 2
  /\ \A i \in DOMAIN calls :
       calls[i].op \in AppendOps \cup { "CommitList" } => FAILED(calls[i].hr)
  /\ Len(SelectSeq(calls, LAMBDA c : c.op \in AppendOps)) = 2
  /\ Len(AllCallsOp("CommitList")) = 1
  /\ retval = GENERIC_ERROR

(***************************************************************************)
(* C15.  An argument that is neither null nor a function makes the update  *)
(* return ArgumentError without any operation on a destination list: no    *)
(* list object is created, nothing is called on one.                       *)
(***************************************************************************)
C15_BadArgumentDoesNothing ==
  (val = "other") =>
    /\ pc = "done"
    /\ retval = ARGUMENT_ERROR
    /\ calls = << >>
    /\ destinations = "none"
    /\ persisted = Prior
    /\ ~provider_args.run

\* the update with such an argument has returned
C15_Witness ==
  /\ val = "other"
  /\ ~delete_jump_list
  /\ ~get_categories
  /\ pc = "done"
  /\ retval = ARGUMENT_ERROR
  /\ calls = << >>

(***************************************************************************)
(* C19.  The operations of a non-delete update on its destination list are *)
(* SetAppID, BeginList, any number of appends, then exactly one of         *)
(* CommitList and AbortList: BeginList is invoked at most once on the list *)
(* object, and an update whose BeginList succeeded has made exactly one    *)
(* terminating call when it returns.                                       *)
(***************************************************************************)
Terminators == { "CommitList", "AbortList" }

\* the operations of a destination list
ListOps ==
  { "SetAppID", "BeginList", "AddUserTasks", "AppendCategory",
    "AppendKnownCategory", "CommitList", "AbortList" }

\* the operations the update made on its destination list, in order
ListCalls == SelectSeq(calls, LAMBDA c : c.op \in ListOps)

C19_OneTransactionPerList ==
  ~delete_jump_list =>
    LET made == ListCalls IN
    /\ \A i \in DOMAIN made :
         /\ i = 1 => made[i].op = "SetAppID"
         /\ i = 2 => made[i].op = "BeginList" /\ SUCCEEDED(made[1].hr)
         /\ i > 2 => /\ made[i].op \notin { "SetAppID", "BeginList" }
                     /\ SUCCEEDED(made[2].hr)
         /\ made[i].op \in Terminators => i = Len(made)
    /\ ~(pc = "done" /\ LastCallSucceeded("BeginList"))
    /\ (pc = "done" /\ Len(made) >= 2 /\ SUCCEEDED(made[2].hr)) =>
         /\ made[Len(made)].op \in Terminators
         /\ destinations # "idle"

\* an update that appended two sections and then committed
C19_Witness ==
  /\ ~delete_jump_list
  /\ pc = "done"
  /\ Len(ListCalls) = 5
  /\ ListCalls[3].op \in AppendOps
  /\ ListCalls[4].op \in AppendOps
  /\ ListCalls[5].op = "CommitList"
  /\ destinations = "committed"

(***************************************************************************)
(* C18.  Every update terminates and returns exactly one value, one of the *)
(* six results, whatever native calls and builders fail and however many   *)
(* categories and items there are.  Termination: while an update runs a    *)
(* step is always possible and every step lowers Rank, a natural number.   *)
(***************************************************************************)
\* an update is running
Running == pc \notin { "idle", "done" }

\* the steps the categories from number `from' on can still take
RECURSIVE Work(_, _)
Work(cats, from) ==
  IF from > Len(cats) THEN 0
  ELSE Len(cats[from].items) + 2 + Work(cats, from + 1)

\* no category list takes more steps than this
MaxWork == 2 * (MaxCats + 2) + MaxItems + 2

\* an upper bound of the steps left in the running update
Rank ==
  CASE pc \in { "idle", "done" } -> 0
    [] pc \in { "CommitList", "AbortList", "DeleteList" } -> 1
    [] pc = "AppendCategories" -> 2 + Work(categories, ci)
    [] pc = "AppendCategory" ->
         3 + (Len(category.items) + 1 - ii) + Work(categories, ci + 1)
    [] pc = "ConvertFromV8" -> MaxWork + 3
    [] pc = "Run" -> MaxWork + 4
    [] pc = "ConvertRemovedJumpListItems" -> MaxWork + 5
    [] pc = "BeginList" -> MaxWork + 6
    [] pc = "SetAppID" -> MaxWork + 7
    [] pc = "CoCreateInstance" -> MaxWork + 8

C18_TerminatesWithOneResult ==
  /\ [](pc = "done" => retval \in JumpListResult)
  /\ [](Running => (retval = NONE /\ Rank > 0 /\ ENABLED Next))
  /\ [][Running => Rank' < Rank]_vars
  /\ [][retval' # retval => (~Running \/ pc' = "done")]_vars

\* an update that went through two categories and three builders and
\* returned the error of its second category
C18_Witness ==
  /\ pc = "done"
  /\ Len(categories) = 2
  /\ Len(SelectSeq(calls, LAMBDA c : c.op \in Builders)) = 2
  /\ \E i \in DOMAIN calls : calls[i].op \in Builders /\ FAILED(calls[i].hr)
  /\ retval = CUSTOM_CATEGORY_ACCESS_DENIED_ERROR

(***************************************************************************)
(* C16.  Every category the parser accepts with kind Custom has a name     *)
(* that is not empty, whichever of `name', `type' and `items' the object   *)
(* has.  The parser only rejects a name that is present and empty (line    *)
(* 245); an object with type "custom" and no name is accepted.             *)
(***************************************************************************)
\* the parser accepted the object it was given
Accepted == pc = "AppendCategories" /\ Len(categories) = 1

C16_CustomHasName ==
  Accepted => (categories[1].type = CUSTOM => categories[1].name # "")

\* an object { type: "custom", items: [...] } was accepted as a Custom
\* category without a name
C16_NamelessCustomAccepted ==
  /\ Accepted
  /\ categories_val.elems[1].keys = { "type", "items" }
  /\ categories_val.elems[1].type = "custom"
  /\ categories[1].type = CUSTOM
  /\ categories[1].name = ""
  /\ categories[1].items # << >>

(***************************************************************************)
(* C14.  A non-delete update runs the provider exactly once, after its     *)
(* BeginList succeeded and before any append, CommitList or AbortList,     *)
(* with the minimum slot count that BeginList returned and the removed     *)
(* items converted from the array that BeginList returned; an update after *)
(* another passes its own snapshot, nothing of the earlier one.            *)
(***************************************************************************)
\* the calls that come after the provider in an update
AfterProvider ==
  AppendOps \cup Builders \cup Terminators \cup { "CoCreateInstance(collection)" }

C14_ProviderRunsOnceOnOwnSnapshot ==
  ~tasks.given =>
    /\ Len(AllCallsOp("Run")) <= 1
    /\ provider_args.run <=> AllCallsOp("Run") # << >>
    /\ \A i \in DOMAIN calls :
         /\ calls[i].op = "Run" =>
              /\ i > 1
              /\ calls[i - 1].op = "BeginList"
              /\ SUCCEEDED(calls[i - 1].hr)
         /\ calls[i].op \in AfterProvider =>
              \E j \in 1..(i - 1) : calls[j].op = "Run"
    /\ provider_args.run =>
         /\ provider_args.min_slots = min_slots
         /\ provider_args.removed_items = removed_items
         /\ \E garbage \in 0..1 :
              removed_items = ConvertRemovedJumpListItems(removed, garbage)
    /\ ~(pc = "done" /\ LastCallSucceeded("BeginList"))
    /\ (pc = "done" /\ \E i \in DOMAIN calls :
                         calls[i].op = "BeginList" /\ SUCCEEDED(calls[i].hr))
         => Len(AllCallsOp("Run")) = 1

\* two updates, one after the other, whose providers got different
\* snapshots, the second one its own
C14_Witness ==
  /\ ~tasks.given
  /\ pc = "done"
  /\ earlier.provider_args.run
  /\ provider_args.run
  /\ earlier.provider_args.min_slots # provider_args.min_slots
  /\ earlier.provider_args.removed_items # provider_args.removed_items
  /\ provider_args.min_slots = min_slots
  /\ provider_args.removed_items # << >>

(***************************************************************************)
(* C17.  In a sequence of updates no update begins a transaction while a   *)
(* transaction that an earlier update began is neither committed nor       *)
(* aborted.  SetUserTasks returns at lines 644-665 with its transaction    *)
(* begun and no CommitList or AbortList call, and a CommitList or          *)
(* AbortList that fails leaves the transaction begun as well.              *)
(***************************************************************************)
C17_OneOpenTransaction ==
  destinations = "began" => earlier.destinations # "began"

\* SetJumpList has begun a transaction after an update that returned with
\* its own begun and never called CommitList or AbortList
C17_BeginAfterAbandoned ==
  /\ ~tasks.given
  /\ destinations = "began"
  /\ LastCallSucceeded("BeginList")
  /\ earlier.destinations = "began"
  /\ ~earlier.terminated

(***************************************************************************)
(* C20.  Every path of SetUserTasks that returns after BeginList succeeded *)
(* has called CommitList or AbortList.  The returns of lines 644, 652,     *)
(* 657, 662 and 665 have not.                                              *)
(***************************************************************************)
\* SetUserTasks has returned, and its BeginList had succeeded
UserTasksReturnedAfterBegin ==
  /\ tasks.given
  /\ pc = "done"
  /\ \E i \in DOMAIN calls : calls[i].op = "BeginList" /\ SUCCEEDED(calls[i].hr)

C20_UserTasksEndTheirTransaction ==
  UserTasksReturnedAfterBegin =>
    \E i \in DOMAIN calls : calls[i].op \in Terminators

\* the second task could not be built: SetUserTasks returned false with
\* the transaction begun and neither CommitList nor AbortList called
C20_ReturnInsideTransaction ==
  /\ UserTasksReturnedAfterBegin
  /\ calls[Len(calls)] = Call("task", E_FAIL, 0, 2)
  /\ retval = "false"
  /\ destinations = "began"
  /\ \A i \in DOMAIN calls : calls[i].op \notin Terminators

(***************************************************************************)
(* C21.  The loop of AppendCategory hands every item of the category to    *)
(* its arm of the switch once and in order, whatever the items before it   *)
(* did: the builder calls made for the category are those of its items     *)
(* other than the separators of a Custom category, in the items' order.    *)
(* The collection holds the native objects of exactly the items whose      *)
(* builder succeeded, in that order, appended_count is its size, and it is *)
(* what the destination list receives.                                     *)
(***************************************************************************)
\* the native object the builder of `it' adds to the collection
NativeOf(it) ==
  CASE it.type = TASK -> ShellLinkOf(it)
    [] it.type = SEPARATOR -> SeparatorLink
    [] it.type = FILE -> ShellItemOf(it)

\* the loop of category number c has gone through the first n items of cat
LoopHandled(cat, c, n) ==
  LET built == SelectSeq(calls, LAMBDA k : k.cat = c /\ k.op \in Builders)
      due == SelectSeq([ k \in 1..n |-> k ],
                       LAMBDA k : ~(cat.items[k].type = SEPARATOR
                                      /\ cat.type # TASKS))
      ok == SelectSeq(built, LAMBDA k : SUCCEEDED(k.hr))
  IN /\ Len(built) = Len(due)
     /\ \A j \in DOMAIN built :
          /\ built[j].item = due[j]
          /\ built[j].op = BuilderOf(cat.items[due[j]])
     /\ collection = [ j \in DOMAIN ok |-> NativeOf(cat.items[ok[j].item]) ]
     /\ appended_count = Len(collection)

\* the loop of the category just finished was entered
LoopEntered ==
  /\ JustFinished
  /\ last.type \in { TASKS, CUSTOM }
  /\ CallsOp(ci - 1, "CoCreateInstance(collection)") # << >>
  /\ SUCCEEDED(CallsOp(ci - 1, "CoCreateInstance(collection)")[1].hr)

C21_EveryItemHandledInOrder ==
  /\ pc = "AppendCategory" => LoopHandled(category, ci, ii - 1)
  /\ LoopEntered =>
       /\ ii = Len(last.items) + 1
       /\ LoopHandled(last, ci - 1, Len(last.items))
       /\ \A k \in DOMAIN calls :
            (calls[k].cat = ci - 1 /\ calls[k].op \in AppendOps) =>
              /\ appended_count > 0
              /\ SUCCEEDED(calls[k].hr) =>
                   pending[Len(pending)].items = collection

\* the first item of a category failed in its builder or was a misplaced
\* separator, and a later item was built and went to the destination list
C21_Witness ==
  /\ LoopEntered
  /\ Len(last.items) >= 2
  /\ \/ last.items[1].type = SEPARATOR /\ last.type = CUSTOM
     \/ \E k \in DOMAIN calls :
          calls[k].cat = ci - 1 /\ calls[k].item = 1 /\ FAILED(calls[k].hr)
  /\ appended_count >= 1
  /\ pending # << >>
  /\ pending[Len(pending)].items = collection

(***************************************************************************)
(* C22.  A Custom category of which at least one item was appended, and    *)
(* whose append by name fails with 0x80040F03, gives                       *)
(* MissingFileTypeRegistrationError; when it fails with E_ACCESSDENIED it  *)
(* gives CustomCategoryAccessDeniedError.  Both replace what the call had  *)
(* recorded before (GenericError for a partial append,                     *)
(* CustomCategorySeparatorError).                                          *)
(***************************************************************************)
\* AppendCategory has just returned for a Custom category after its append
\* by name returned hr
CustomAppendReturned(hr) ==
  /\ LoopEntered
  /\ last.type = CUSTOM
  /\ CallsOp(ci - 1, "AppendCategory") # << >>
  /\ AppendHr(ci - 1) = hr

C22_SpecificCodesOverride ==
  /\ CustomAppendReturned(DESTS_E_NO_MATCHING_ASSOC_HANDLER) =>
       /\ appended_count >= 1
       /\ latestResult = MISSING_FILE_TYPE_REGISTRATION_ERROR
  /\ CustomAppendReturned(E_ACCESSDENIED) =>
       /\ appended_count >= 1
       /\ latestResult = CUSTOM_CATEGORY_ACCESS_DENIED_ERROR

\* the loop had recorded the separator error and the append by name failed
\* for want of a file type registration
C22_Witness ==
  /\ CustomAppendReturned(DESTS_E_NO_MATCHING_ASSOC_HANDLER)
  /\ SeparatorRecorded(last)
  /\ appended_count = 1
  /\ latestResult = MISSING_FILE_TYPE_REGISTRATION_ERROR

(***************************************************************************)
(* C23.  A Custom category of which at least one item was appended, and    *)
(* whose append by name fails with a code other than 0x80040F03 and        *)
(* E_ACCESSDENIED.  As claimed (the result is GenericError) it fails: the  *)
(* code turns only Success into GenericError (lines 465-466), so a         *)
(* recorded CustomCategorySeparatorError stays.  Amended: the result is    *)
(* CustomCategorySeparatorError when the category holds a separator and    *)
(* GenericError otherwise.                                                 *)
(***************************************************************************)
\* the append by name failed with a code that has no error of its own
CustomAppendFailedUnmapped ==
  /\ LoopEntered
  /\ last.type = CUSTOM
  /\ CallsOp(ci - 1, "AppendCategory") # << >>
  /\ FAILED(AppendHr(ci - 1))
  /\ AppendHr(ci - 1) \notin { DESTS_E_NO_MATCHING_ASSOC_HANDLER, E_ACCESSDENIED }

C23_UnmappedIsGeneric_Original ==
  CustomAppendFailedUnmapped => latestResult = GENERIC_ERROR

C23_UnmappedKeepsSeparatorError ==
  CustomAppendFailedUnmapped =>
    /\ appended_count >= 1
    /\ latestResult = IF SeparatorRecorded(last)
                      THEN CUSTOM_CATEGORY_SEPARATOR_ERROR
                      ELSE GENERIC_ERROR

\* every item was appended, and the append by name failed with E_FAIL
C23_Witness ==
  /\ CustomAppendFailedUnmapped
  /\ AppendHr(ci - 1) = E_FAIL
  /\ appended_count = Len(last.items)
  /\ latestResult = GENERIC_ERROR

(***************************************************************************)
(* C24.  A Tasks category gives Success or GenericError and nothing else.  *)
(* A failed AddUserTasks gives GenericError, whether the result before it  *)
(* was Success or the GenericError of a partial append.                    *)
(***************************************************************************)
C24_TasksSuccessOrGeneric ==
  (JustFinished /\ last.type = TASKS) =>
    /\ latestResult \in { SUCCESS, GENERIC_ERROR }
    /\ CallsOp(ci - 1, "AppendCategory") = << >>
    /\ CallsOp(ci - 1, "AddUserTasks") # << >> =>
         /\ appended_count >= 1
         /\ FAILED(AppendHr(ci - 1)) => latestResult = GENERIC_ERROR
         /\ SUCCEEDED(AppendHr(ci - 1)) =>
              latestResult = IF appended_count < Len(last.items)
                             THEN GENERIC_ERROR ELSE SUCCESS

\* every item of a Tasks category, a separator among them, was appended and
\* AddUserTasks failed
C24_Witness ==
  /\ JustFinished
  /\ last.type = TASKS
  /\ \E i \in DOMAIN last.items : last.items[i].type = SEPARATOR
  /\ appended_count = Len(last.items)
  /\ CallsOp(ci - 1, "AddUserTasks") # << >>
  /\ FAILED(AppendHr(ci - 1))
  /\ latestResult = GENERIC_ERROR

(***************************************************************************)
(* C25.  For a Frequent or Recent category AppendCategories calls          *)
(* AppendKnownCategory once and makes no other call for it: no collection, *)
(* no builder, no AddUserTasks, no AppendCategory.  The category gives     *)
(* GenericError when the call fails and Success when it succeeds, and a    *)
(* failure does not keep the categories after it from being processed.     *)
(***************************************************************************)
KnownCategory(c) == categories[c].type \in { FREQUENT, RECENT }

C25_KnownCategoryActivatedOnce ==
  /\ \A c \in DOMAIN categories :
       KnownCategory(c) =>
         LET made == CallsFor(c) IN
         IF c < ci
         THEN /\ Len(made) = 1
              /\ made[1].op = "AppendKnownCategory"
         ELSE made = << >>
  /\ (JustFinished /\ KnownCategory(ci - 1)) =>
       latestResult = IF FAILED(CallsFor(ci - 1)[1].hr)
                      THEN GENERIC_ERROR ELSE SUCCESS
  /\ (pc = "CommitList" \/ (pc = "done" /\ ci > 0)) => ci = Len(categories) + 1
  /\ \A k \in DOMAIN pending :
       pending[k].kind \in { FREQUENT, RECENT } => pending[k].items = << >>

\* the activation of the first category failed, the second category was
\* activated all the same, and AppendCategories returned GenericError
C25_Witness ==
  /\ pc = "CommitList"
  /\ Len(categories) = 2
  /\ KnownCategory(1) /\ KnownCategory(2)
  /\ categories[1].type # categories[2].type
  /\ FAILED(CallsFor(1)[1].hr)
  /\ SUCCEEDED(CallsFor(2)[1].hr)
  /\ pending = << [ kind |-> categories[2].type, name |-> "", items |-> << >> ] >>
  /\ result = GENERIC_ERROR

(***************************************************************************)
(* C26.  An update that did not take the delete path returns Success only  *)
(* when CommitList succeeded, every Frequent / Recent activation succeeded *)
(* and every item of every Tasks and Custom category was built and went to *)
(* the destination list.  The code returns Success with a category of      *)
(* which no item was built: line 434 returns `result', still SUCCESS.      *)
(***************************************************************************)
\* the update returned Success after running its provider
ReturnedSuccess ==
  /\ pc = "done"
  /\ ~delete_jump_list
  /\ ~tasks.given
  /\ retval = SUCCESS

\* every item of category number c was built and its collection was taken
\* by the destination list
AllItemsAdded(c) ==
  /\ Len(SelectSeq(calls, LAMBDA k : k.cat = c /\ k.op \in Builders
                                       /\ SUCCEEDED(k.hr)))
       = Len(categories[c].items)
  /\ \E k \in DOMAIN calls :
       /\ calls[k].cat = c
       /\ calls[k].op \in { "AddUserTasks", "AppendCategory" }
       /\ SUCCEEDED(calls[k].hr)

C26_SuccessMeansEverythingAdded ==
  ReturnedSuccess =>
    /\ LastCallSucceeded("CommitList")
    /\ \A c \in DOMAIN categories :
         /\ KnownCategory(c) => SUCCEEDED(CallsFor(c)[1].hr)
         /\ (~KnownCategory(c) /\ categories[c].items # << >>) => AllItemsAdded(c)

\* the provider gave one category with items, none of which was built; the
\* update committed an empty list and returned Success
C26_SuccessWithNothingAdded ==
  /\ ReturnedSuccess
  /\ LastCallSucceeded("CommitList")
  /\ Len(categories) = 1
  /\ categories[1].items # << >>
  /\ \A k \in DOMAIN calls : calls[k].op \in Builders => FAILED(calls[k].hr)
  /\ persisted = [ tag |-> "committed", sections |-> << >> ]

(***************************************************************************)
(* Reading the state: the removed array and the items converted from it.   *)
(***************************************************************************)
\* ConvertRemovedJumpListItems has returned
Converted == pc = "Run"

\* the object at position k of the removed array makes the loop emit an item
Emits(k) ==
  \/ removed.objs[k].kind = "item"
  \/ removed.objs[k].kind = "link" /\ "GetPath" \notin removed.objs[k].fails

\* the positions among the first n of the removed array that emit an item,
\* in order
Sources(n) == SelectSeq([ k \in 1..n |-> k ], Emits)

\* the element counts the loop may have run to: the array's when GetCount
\* succeeded
Counts ==
  IF removed.count_ok THEN { Len(removed.objs) } ELSE 0..Len(removed.objs)

\* the first n elements were converted, Sources(n) being where the items
\* came from
ConvertedFrom(n) == Len(removed_items) = Len(Sources(n))

(***************************************************************************)
(* C27.  The removed-item conversion emits at most one item for each       *)
(* object of the native array, in the array's order: one File item for an  *)
(* IShellItem, one Task item for an IShellLink whose path can be read,     *)
(* nothing for an IShellLink whose path cannot be read and for an object   *)
(* that is neither.  The output is never longer than the array.            *)
(***************************************************************************)
C27_OneItemPerObjectInOrder ==
  Converted =>
    /\ Len(removed_items) <= Len(removed.objs)
    /\ \E n \in Counts :
         /\ ConvertedFrom(n)
         /\ \A j \in DOMAIN removed_items :
              LET obj == removed.objs[Sources(n)[j]] IN
              /\ removed_items[j].type = IF obj.kind = "item" THEN FILE ELSE TASK
              /\ (obj.kind = "item" /\ obj.fails = { }) =>
                   removed_items[j].path = obj.path
              /\ (obj.kind = "link" /\ obj.fails = { }) =>
                   removed_items[j].title = obj.title

\* an array of an object of neither kind and a file gave the one File item
C27_Witness ==
  /\ Converted
  /\ removed.count_ok
  /\ Len(removed.objs) = 2
  /\ removed.objs[1].kind = "other"
  /\ removed.objs[2].kind = "item"
  /\ Len(removed_items) = 1
  /\ removed_items[1].type = FILE
  /\ removed_items[1].path = removed.objs[2].path

(***************************************************************************)
(* C28.  Every Task item reconstructed from a removed IShellLink has as    *)
(* its path the path read from that link.  ConvertShellLinkToJumpListItem  *)
(* reads the path into a local buffer (line 524) and never assigns         *)
(* item->path, so the Task item keeps whatever path `item' had.            *)
(***************************************************************************)
C28_TaskCarriesLinkPath ==
  (Converted /\ removed.count_ok /\ ConvertedFrom(Len(removed.objs))) =>
    \A j \in DOMAIN removed_items :
      LET obj == removed.objs[Sources(Len(removed.objs))[j]] IN
      obj.kind = "link" => removed_items[j].path = obj.path

\* the one removed shortcut, all of whose reads succeeded, came out as a
\* Task item with an empty path
C28_TaskWithoutPath ==
  /\ Converted
  /\ removed.count_ok
  /\ Len(removed.objs) = 1
  /\ removed.objs[1].kind = "link"
  /\ removed.objs[1].fails = { }
  /\ removed.objs[1].path # ""
  /\ Len(removed_items) = 1
  /\ removed_items[1].type = TASK
  /\ removed_items[1].title = removed.objs[1].title
  /\ removed_items[1].path = ""

(***************************************************************************)
(* C29.  A removed IShellLink whose path can be read gives a Task item     *)
(* whatever its other reads do: arguments and title that cannot be read or *)
(* are no strings become empty, an icon location that cannot be read       *)
(* becomes no icon with index 0, a description that cannot be read becomes *)
(* empty, and each field that can be read holds what was read.  Only a     *)
(* failed path read drops the item.                                        *)
(***************************************************************************)
\* the read `what' of the shortcut obj gives a value
Reads(obj, what) == obj.fails \cap what = { }

C29_FailedReadsDefault ==
  Converted =>
    \E n \in Counts :
      /\ ConvertedFrom(n)
      /\ \A j \in DOMAIN removed_items :
           LET obj == removed.objs[Sources(n)[j]]
               out == removed_items[j]
           IN obj.kind = "link" =>
                /\ out.type = TASK
                /\ out.arguments = IF Reads(obj, { "Arguments", "ArgumentsType" })
                                   THEN obj.arguments ELSE ""
                /\ out.title = IF Reads(obj, { "Title", "TitleType" })
                               THEN obj.title ELSE ""
                /\ out.icon_path = IF Reads(obj, { "GetIconLocation" })
                                   THEN obj.icon_path ELSE ""
                /\ out.icon_index = IF Reads(obj, { "GetIconLocation" })
                                    THEN obj.icon_index ELSE 0
                /\ out.description = IF Reads(obj, { "GetDescription" })
                                     THEN obj.description ELSE ""

\* the arguments of the second shortcut were no string: its Task item has
\* empty arguments and the title, icon and description that were read
C29_Witness ==
  /\ Converted
  /\ removed.count_ok
  /\ Len(removed.objs) = 2
  /\ removed.objs[1].kind = "link" /\ removed.objs[1].fails = { }
  /\ removed.objs[2].kind = "link" /\ removed.objs[2].fails = { "ArgumentsType" }
  /\ Len(removed_items) = 2
  /\ removed_items[2].arguments = ""
  /\ removed_items[2].title = removed.objs[2].title
  /\ removed_items[2].icon_path = removed.objs[2].icon_path
  /\ removed_items[2].icon_index = 2
  /\ removed_items[2].description = removed.objs[2].description

(***************************************************************************)
(* C30.  An emitted item depends on its own native object only: it is the  *)
(* item the conversion emits for an array holding that object alone.  The  *)
(* loop fills one JumpListItem declared before it (line 572) and pushes    *)
(* copies of it: the File branch sets type and path only, the Task branch  *)
(* never sets the path, and a failed GetDisplayName leaves the path, so    *)
(* fields of earlier elements come out again in later items.               *)
(***************************************************************************)
\* what the conversion emits for the array holding object k alone
Alone(k) ==
  ConvertRemovedJumpListItems(
    [ count_ok |-> TRUE, objs |-> << removed.objs[k] >> ], 0)

C30_ItemFromOwnObjectOnly ==
  (Converted /\ removed.count_ok /\ ConvertedFrom(Len(removed.objs))) =>
    \A j \in DOMAIN removed_items :
      Alone(Sources(Len(removed.objs))[j]) = << removed_items[j] >>

\* a File item emitted after a shortcut carries the shortcut's arguments,
\* title, icon and description
C30_FileCarriesShortcutFields ==
  /\ Converted
  /\ removed.count_ok
  /\ Len(removed.objs) = 2
  /\ removed.objs[1].kind = "link" /\ removed.objs[1].fails = { }
  /\ removed.objs[2].kind = "item" /\ removed.objs[2].fails = { }
  /\ Len(removed_items) = 2
  /\ removed_items[2].type = FILE
  /\ removed_items[2].path = removed.objs[2].path
  /\ removed_items[2].arguments = removed.objs[1].arguments
  /\ removed_items[2].title = removed.objs[1].title
  /\ removed_items[2].icon_path = removed.objs[1].icon_path
  /\ removed_items[2].arguments # ""

(***************************************************************************)
(* C31.  The removed-item conversion emits nothing and reads no element    *)
(* when GetCount fails or gives zero; its loop runs only after a           *)
(* successful GetCount, with the count it gave.  The test of line 570,     *)
(* SUCCEEDED(in->GetCount(&removed_count) && (removed_count > 0)), takes   *)
(* SUCCEEDED of a bool and always holds: after a failed GetCount the loop  *)
(* runs with the value removed_count happens to hold, reads the elements   *)
(* below it and emits their items.                                         *)
(***************************************************************************)
C31_NoCountNoItems ==
  (Converted /\ (~removed.count_ok \/ removed.objs = << >>)) =>
    removed_items = << >>

\* GetCount failed, and the conversion emitted the File item of the first
\* element of the array all the same
C31_ItemsAfterFailedCount ==
  /\ Converted
  /\ ~removed.count_ok
  /\ removed.objs # << >>
  /\ removed.objs[1].kind = "item"
  /\ removed.objs[1].fails = { }
  /\ removed_items # << >>
  /\ removed_items[1].type = FILE
  /\ removed_items[1].path = removed.objs[1].path

(***************************************************************************)
(* C33.  An update returns ArgumentError exactly when its argument is      *)
(* neither null nor a function, or its provider ran and returned a value   *)
(* that does not convert to a category list.  AppendCategory and           *)
(* AppendCategories never give ArgumentError, and no failed native call    *)
(* (CoCreateInstance, SetAppID, BeginList, an append, CommitList) makes    *)
(* the update return it.                                                   *)
(***************************************************************************)
\* the provider ran and what it returned is no category list
ProviderValueRejected ==
  /\ provider_args.run
  /\ ~ConvertCategoriesFromV8(categories_val).ok

C33_ArgumentErrorOnlyForArguments ==
  /\ category_result # ARGUMENT_ERROR
  /\ latestResult # ARGUMENT_ERROR
  /\ categories_result # ARGUMENT_ERROR
  /\ (pc = "done" /\ ~tasks.given) =>
       (retval = ARGUMENT_ERROR <=> (val = "other" \/ ProviderValueRejected))
  /\ (pc = "done" /\ retval = ARGUMENT_ERROR /\ calls # << >>) =>
       calls[Len(calls)].op = "AbortList"

\* an update whose second category could not be parsed returned
\* ArgumentError although its AbortList failed
C33_Witness ==
  /\ pc = "done"
  /\ val = "function"
  /\ ProviderValueRejected
  /\ Len(categories_val.elems) = 2
  /\ calls[Len(calls)] = Call("AbortList", E_FAIL, 0, 0)
  /\ destinations = "began"
  /\ retval = ARGUMENT_ERROR

(***************************************************************************)
(* C34.  When no item of a non-empty Tasks or Custom category was          *)
(* appended, AppendCategory calls neither AddUserTasks nor AppendCategory  *)
(* on the destination list: the pending list is what the categories before *)
(* it made it, and the category adds no section.                           *)
(***************************************************************************)
\* AppendCategory has just returned for a non-empty category none of whose
\* items was appended
NothingAppended ==
  /\ JustFinished
  /\ last.type \in { TASKS, CUSTOM }
  /\ last.items # << >>
  /\ \A k \in DOMAIN calls :
       (calls[k].cat = ci - 1 /\ calls[k].op \in Builders) => FAILED(calls[k].hr)

C34_NothingAppendedNoSection ==
  NothingAppended =>
    /\ appended_count = 0
    /\ collection = << >>
    /\ \A k \in DOMAIN calls :
         calls[k].cat = ci - 1 =>
           calls[k].op \in Builders \cup { "CoCreateInstance(collection)" }
    /\ Len(pending) =
         Len(SelectSeq(calls, LAMBDA c : /\ c.cat < ci - 1
                                         /\ c.op \in AppendOps
                                         /\ SUCCEEDED(c.hr)))

\* the first category added its section; no builder of the second, a Tasks
\* category of two items, succeeded, and the pending list still holds the
\* one section
C34_Witness ==
  /\ NothingAppended
  /\ ci = 3
  /\ last.type = TASKS
  /\ Len(CallsFor(2)) = 3
  /\ Len(pending) = 1
  /\ pending[1].kind = categories[1].type

(***************************************************************************)
(* C35.  AppendTask, AppendSeparator and AppendFile either add one object  *)
(* at the end of the collection they are given and return true, or leave   *)
(* the collection as it was and return false; whichever single native call *)
(* of a builder fails, the collection is left as it was.  No builder makes *)
(* a call on the destination list: a turn of the item loop leaves the      *)
(* list, its pending sections and the persisted list alone.                *)
(***************************************************************************)
\* the item loop is about to hand `item' to a builder
BuilderDue ==
  /\ pc = "AppendCategory"
  /\ ii <= Len(category.items)
  /\ ~(item.type = SEPARATOR /\ category.type # TASKS)

\* coll is `collection' with one object added at its end
OneAdded(coll) ==
  /\ Len(coll) = Len(collection) + 1
  /\ SubSeq(coll, 1, Len(collection)) = collection

C35_BuilderAddsOneOrNothing ==
  /\ [](BuilderDue =>
          /\ Range(BuilderCalls(item)) \cap ListOps = { }
          /\ \A fail \in Range(BuilderCalls(item)) \cup { NONE } :
               LET built == Build(item, collection, fail) IN
               IF fail = NONE
               THEN /\ built.ok
                    /\ OneAdded(built.collection)
                    /\ built.collection[Len(built.collection)] = NativeOf(item)
               ELSE /\ ~built.ok
                    /\ built.collection = collection)
  /\ [][BuilderDue =>
          /\ UNCHANGED << destinations, pending, persisted >>
          /\ Len(calls') = Len(calls) + 1
          /\ calls'[Len(calls')].op = BuilderOf(item)
          /\ IF SUCCEEDED(calls'[Len(calls')].hr)
             THEN OneAdded(collection') /\ appended_count' = appended_count + 1
             ELSE UNCHANGED << collection, appended_count >>]_vars

\* the first task could not be built and left the collection empty; the
\* second, a task with an icon, is the one object of the collection
C35_Witness ==
  /\ pc = "AppendCategory"
  /\ ii = 3
  /\ category.items[1].type = TASK
  /\ category.items[2].icon_path # ""
  /\ calls[Len(calls) - 1] = Call("AppendTask", E_FAIL, 1, 1)
  /\ calls[Len(calls)] = Call("AppendTask", S_OK, 1, 2)
  /\ collection = << ShellLinkOf(category.items[2]) >>
  /\ appended_count = 1
  /\ pending = << >>

(***************************************************************************)
(* C32: in both revisions of SetJumpList the provider is run only after    *)
(* the argument converted to a callable provider: after an argument that   *)
(* is neither null nor a function no execution reaches the provider        *)
(* invocation or any destination-list call.  The current revision returns  *)
(* at browser_win.cc:680-684.  The older revision (part_000:383-386)       *)
(* throws and goes on: it creates the destination list, calls SetAppID and *)
(* BeginList on it and invokes get_categories.Run on the null callback.    *)
(***************************************************************************)
C32_NoCallWithoutProvider ==
  val = "other" =>
    /\ ~provider_args.run
    /\ \A k \in 1..Len(calls) : calls[k].op \notin ListOps \cup { "Run" }

\* the older revision, given an argument that is no function, has begun a
\* list on the destination list and reached the provider invocation
C32_ListBegunWithoutProvider ==
  /\ val = "other"
  /\ ~get_categories
  /\ destinations = "began"
  /\ AllCallsOp("BeginList") # << >>
  /\ calls[Len(calls)].op = "Run"
  /\ pc = "crashed"

=============================================================================
